---- MODULE Spec2Model ----
(***************************************************************************)
(* Cache-and-resolve subsystem of weather-bingo (api/src):                 *)
(*   services/forecast.rs  ensure_yr_cache_fresh, resolve_forecast,        *)
(*                         resolve_race_forecasts                          *)
(*   services/yr.rs        fetch_timeseries, extract_forecasts_at_times    *)
(*   services/poller.rs    poll_all_checkpoints, poll_single_checkpoint    *)
(*   db/queries.rs         the yr_responses and forecasts statements       *)
(* Times are whole seconds.  An Option<T> is a sequence of length <= 1:    *)
(* <<>> is None and <<x>> is Some(x).                                      *)
(***************************************************************************)
EXTENDS Integers, Sequences, FiniteSets, TLC

\* ------------------------------------------------------------------ bounds
NumCheckpoints == 2
MaxTicks == 1
MaxRun == 2
MaxOps == 2
BatchLen == 2
MaxLen == 2
MaxProfile == 3
MaxFutures == 6
NumResolvers == 1
NumCallers == 2

\* ------------------------------------------------------- program constants
HourSecs == 60 * 60
HOURLY_TOLERANCE_SECS == 3600
SIX_HOURLY_TOLERANCE_SECS == 10800
FORECAST_TIME_TOLERANCE_HOURS == 3
EXPIRES_FALLBACK_HOURS == 1
MAX_CONCURRENT_YR_FETCHES == 4
POLLER_MIN_SPEED_KMH == 10
POLLER_MAX_SPEED_KMH == 30
K_UP == 12
K_DOWN == 4
MIN_COST_FACTOR_INV == 2
CostScale == 1000
TempScale == 10
KmScale == 1000
POLLER_WAKEUP_BUFFER_SECS == 30
POLLER_MIN_SLEEP_SECS == 60
POLLER_MAX_SLEEP_SECS == 1800
POLLER_RETRY_DELAY_SECS == 120
POLLER_MAX_RETRIES == 5
POLLER_NO_RACES_SLEEP_SECS == 3600

None == << >>
Some(x) == << x >>
IsSome(o) == Len(o) = 1
Unwrap(o) == o[1]

Abs(x) == IF x < 0 THEN -x ELSE x

Checkpoints == 1..NumCheckpoints

VARIABLES
  now,        \* the wall clock (Utc::now(), NOW())
  upRun,      \* the model run the provider currently serves
  cache,      \* table yr_responses: a set of rows
  forecasts,  \* table forecasts: rows in insertion order (append-only)
  ef,         \* the ensure_yr_cache_fresh calls in progress, one slot per caller
  res,        \* the resolve_forecast requests
  batch,      \* the resolve_race_forecasts request
  poller,     \* the background poller
  nops,       \* operations started so far
  xin,        \* input of a pure-function run
  xout,       \* its output
  statusReq   \* the GET /api/v1/poller/status request

vars == << now, upRun, cache, forecasts, ef, res, batch, poller, nops, xin, xout, statusReq >>

\* ------------------------------------------------------------ yr.rs: extractor
\* ForecastResolution::max_tolerance_secs; fine = the entry has next_1_hours.
max_tolerance_secs(fine) ==
  IF fine THEN HOURLY_TOLERANCE_SECS ELSE SIX_HOURLY_TOLERANCE_SECS

\* Variant of parse_from_rfc3339 that reads text that does not parse as the
\* epoch.
parse_from_rfc3339_lenient(s) ==
  IF s.valid THEN Some(s.local - s.offset) ELSE Some(0)

\* A timestamp string is [valid, local, offset]: the RFC 3339 text with its
\* local time and zone offset, or text that does not parse.
\* DateTime::parse_from_rfc3339(s).timestamp()
parse_from_rfc3339(s) ==
  IF s.valid THEN Some(s.local - s.offset) ELSE None

\* The filter_map over the timeseries: (timestamp, entry) for every entry
\* whose time parses, in payload order; the others are skipped.
RECURSIVE parsed_entries(_)
parsed_entries(ts) ==
  IF ts = << >> THEN << >>
  ELSE LET e == Head(ts)
           t == parse_from_rfc3339(e.time)
       IN  (IF IsSome(t) THEN << [ts_time |-> Unwrap(t), entry |-> e] >> ELSE << >>)
           \o parsed_entries(Tail(ts))

\* Variant of min_by_key that keeps the last of several equally near elements.
RECURSIVE min_by_key_last(_, _)
min_by_key_last(pe, target_ts) ==
  IF Len(pe) = 1 THEN pe[1]
  ELSE LET x == min_by_key_last(SubSeq(pe, 1, Len(pe) - 1), target_ts)
           y == pe[Len(pe)]
       IN  IF Abs(x.ts_time - target_ts) >= Abs(y.ts_time - target_ts) THEN y ELSE x

\* Iterator::min_by_key on |ts_time - target|: a left fold that replaces the
\* kept element only by a strictly smaller one (the first minimum wins).
RECURSIVE min_by_key(_, _)
min_by_key(pe, target_ts) ==
  IF Len(pe) = 1 THEN pe[1]
  ELSE LET x == min_by_key(SubSeq(pe, 1, Len(pe) - 1), target_ts)
           y == pe[Len(pe)]
       IN  IF Abs(x.ts_time - target_ts) > Abs(y.ts_time - target_ts) THEN y ELSE x

\* parse_timeseries_entry: the entry's own time, its resolution tier and its
\* weather values (data); yr_model_run_at is set by the caller.
parse_timeseries_entry(entry) ==
  [ forecast_time   |-> Unwrap(parse_from_rfc3339(entry.time)),
    fine            |-> entry.next_1_hours,
    data            |-> entry.data,
    yr_model_run_at |-> None ]

\* Variant of extract_one that stamps the entry with the requested time.
extract_one_at_requested(pe, yr_model_run_at, target_ts) ==
  LET closest  == min_by_key(pe, target_ts).entry
      parsed   == [parse_timeseries_entry(closest) EXCEPT !.yr_model_run_at = yr_model_run_at]
      distance == Abs(parsed.forecast_time - target_ts)
  IN  IF distance > max_tolerance_secs(parsed.fine) THEN None
      ELSE Some([ parsed EXCEPT !.forecast_time = target_ts ])

\* Variant of extract_one that also rejects a distance equal to the tolerance.
extract_one_strict(pe, yr_model_run_at, target_ts) ==
  LET closest  == min_by_key(pe, target_ts).entry
      parsed   == [parse_timeseries_entry(closest) EXCEPT !.yr_model_run_at = yr_model_run_at]
      distance == Abs(parsed.forecast_time - target_ts)
  IN  IF distance >= max_tolerance_secs(parsed.fine) THEN None ELSE Some(parsed)

\* The per-time body of the loop in extract_forecasts_at_times.
extract_one(pe, yr_model_run_at, target_ts) ==
  LET closest  == min_by_key(pe, target_ts).entry
      parsed   == [parse_timeseries_entry(closest) EXCEPT !.yr_model_run_at = yr_model_run_at]
      distance == Abs(parsed.forecast_time - target_ts)
  IN  IF distance > max_tolerance_secs(parsed.fine) THEN None ELSE Some(parsed)

\* extract_forecasts_at_times(raw_json, forecast_times).  doc is the
\* deserialized document: [model_run (meta.updated_at, parsed), timeseries].
extract_forecasts_at_times(doc, forecast_times) ==
  LET pe == parsed_entries(doc.timeseries)
  IN  IF doc.timeseries = << >> \/ pe = << >>
      THEN [ ok |-> FALSE, forecasts |-> << >>, forecast_horizon |-> None ]
      ELSE [ ok |-> TRUE,
             forecasts |-> [ i \in 1..Len(forecast_times) |->
                               extract_one(pe, doc.model_run, forecast_times[i]) ],
             forecast_horizon |-> Some(pe[Len(pe)].ts_time) ]

\* ------------------------------------------------- queries.rs: table forecasts
\* A row is [cp, forecast_time, fetched_at, yr_model_run_at, data].
\* The arbiter of ON CONFLICT (checkpoint_id, forecast_time, yr_model_run_at)
\* WHERE yr_model_run_at IS NOT NULL: a row whose model run is NULL lies
\* outside the partial index and conflicts with nothing.
dedup_conflict(row, p) ==
  /\ IsSome(p.yr_model_run_at)
  /\ IsSome(row.yr_model_run_at)
  /\ row.cp = p.cp
  /\ row.forecast_time = p.forecast_time
  /\ row.yr_model_run_at = p.yr_model_run_at

\* INSERT ... ON CONFLICT ... DO NOTHING, one row.  Callers receive
\* Some(row) when a row was inserted and None when it was deduplicated
\* (poller.rs: Ok(Some(_)) / Ok(None)).
insert_forecast(tbl, p) ==
  IF \E i \in 1..Len(tbl) : dedup_conflict(tbl[i], p)
  THEN [ tbl |-> tbl, inserted |-> None ]
  ELSE [ tbl |-> Append(tbl, p), inserted |-> Some(p) ]

\* ORDER BY ABS(forecast_time - $2), yr_model_run_at DESC NULLS LAST,
\* fetched_at DESC: a sorts strictly before b.
sorts_before(a, b, t) ==
  LET da == Abs(a.forecast_time - t)
      db == Abs(b.forecast_time - t)
  IN  \/ da < db
      \/ /\ da = db
         /\ IsSome(a.yr_model_run_at)
         /\ \/ ~IsSome(b.yr_model_run_at)
            \/ Unwrap(a.yr_model_run_at) > Unwrap(b.yr_model_run_at)
      \/ /\ da = db
         /\ a.yr_model_run_at = b.yr_model_run_at
         /\ a.fetched_at > b.fetched_at

\* Variant of get_latest_forecast whose window excludes its two ends.
get_latest_forecast_open_window(tbl, cp, t) ==
  LET h    == FORECAST_TIME_TOLERANCE_HOURS * HourSecs
      cand == { i \in 1..Len(tbl) : /\ tbl[i].cp = cp
                                    /\ tbl[i].forecast_time > t - h
                                    /\ tbl[i].forecast_time < t + h }
      best == { i \in cand : \A j \in cand : ~sorts_before(tbl[j], tbl[i], t) }
  IN  IF cand = {} THEN { None } ELSE { Some(tbl[i]) : i \in best }

\* get_latest_forecast: the rows the statement may return (LIMIT 1 picks any
\* row that no other row sorts before), as Options; {None} when none match.
get_latest_forecast(tbl, cp, t) ==
  LET h    == FORECAST_TIME_TOLERANCE_HOURS * HourSecs
      cand == { i \in 1..Len(tbl) : /\ tbl[i].cp = cp
                                    /\ tbl[i].forecast_time >= t - h
                                    /\ tbl[i].forecast_time <= t + h }
      best == { i \in cand : \A j \in cand : ~sorts_before(tbl[j], tbl[i], t) }
  IN  IF cand = {} THEN { None } ELSE { Some(tbl[i]) : i \in best }

\* The statement of get_latest_forecasts_batch: UNNEST ... WITH ORDINALITY
\* numbers the pairs, and LEFT JOIN LATERAL ... ON true gives one row per
\* pair, with the row its sub-select picked or NULL columns (None).  The
\* possible sets of rows.
batch_join_rows(tbl, pairs) ==
  { { [ idx |-> k, forecast |-> f[k] ] : k \in 1..Len(pairs) } :
      f \in { g \in [ 1..Len(pairs) -> { None } \cup { Some(tbl[i]) : i \in 1..Len(tbl) } ] :
                \A k \in 1..Len(pairs) :
                  g[k] \in get_latest_forecast(tbl, pairs[k][1], pairs[k][2]) } }

\* fetch_all: the rows in any order.
Orderings(rows) ==
  { q \in [ 1..Cardinality(rows) -> rows ] :
      \A i, j \in 1..Cardinality(rows) : i # j => q[i] # q[j] }

\* Variant of build_results that takes the rows in the order they arrive.
build_results_in_arrival_order(rows, n) ==
  [ i \in 1..n |-> IF i <= Len(rows) THEN rows[i].forecast ELSE None ]

\* vec![None; pairs.len()], then results[row.idx - 1] = Some(forecast) for
\* every row whose forecast columns are not NULL.
RECURSIVE build_results(_, _)
build_results(rows, n) ==
  IF rows = << >> THEN [ i \in 1..n |-> None ]
  ELSE LET prev == build_results(SubSeq(rows, 1, Len(rows) - 1), n)
           row  == rows[Len(rows)]
       IN  IF IsSome(row.forecast) THEN [ prev EXCEPT ![row.idx] = row.forecast ]
           ELSE prev

\* get_latest_forecasts_batch: the possible result vectors.
get_latest_forecasts_batch(tbl, pairs) ==
  IF pairs = << >> THEN { << >> }
  ELSE UNION { { build_results(q, Len(pairs)) : q \in Orderings(rows) } :
                 rows \in batch_join_rows(tbl, pairs) }

\* ----------------------------------------------- queries.rs: table yr_responses
\* Variant of get_yr_cached_response with the expiry comparison inverted.
get_yr_cached_response_inverted(tbl, cp, t) ==
  LET m == { r \in tbl : r.cp = cp /\ r.expires_at <= t }
  IN  IF m = {} THEN None ELSE Some(CHOOSE r \in m : TRUE)

\* A row is [cp, raw_response, fetched_at, expires_at, last_modified]; the
\* key of the table is the checkpoint (models.rs: YrCachedResponse.checkpoint_id,
\* and the calls in forecast.rs), and NOW() is the clock.
\* get_yr_cached_response: WHERE ... AND expires_at > NOW(), fetch_optional.
get_yr_cached_response(tbl, cp, t) ==
  LET m == { r \in tbl : r.cp = cp /\ r.expires_at > t }
  IN  IF m = {} THEN None ELSE Some(CHOOSE r \in m : TRUE)

\* get_yr_cached_response_any: the same without the expiry condition.
get_yr_cached_response_any(tbl, cp) ==
  LET m == { r \in tbl : r.cp = cp }
  IN  IF m = {} THEN None ELSE Some(CHOOSE r \in m : TRUE)

\* Variant of upsert_yr_cached_response without the ON CONFLICT clause.
upsert_yr_cached_response_insert(tbl, cp, fetched_at, expires_at, last_modified, raw_response) ==
  tbl \cup { [ cp |-> cp, raw_response |-> raw_response, fetched_at |-> fetched_at,
               expires_at |-> expires_at, last_modified |-> last_modified ] }

\* upsert_yr_cached_response: INSERT ... ON CONFLICT (key) DO UPDATE SET
\* fetched_at, expires_at, last_modified, raw_response = EXCLUDED.*
upsert_yr_cached_response(tbl, cp, fetched_at, expires_at, last_modified, raw_response) ==
  LET new == [ cp |-> cp, raw_response |-> raw_response, fetched_at |-> fetched_at,
               expires_at |-> expires_at, last_modified |-> last_modified ]
  IN  IF \E r \in tbl : r.cp = cp
      THEN { IF r.cp = cp THEN new ELSE r : r \in tbl }
      ELSE tbl \cup { new }

\* update_yr_cache_expiry_and_last_modified: sets expires_at, and the token
\* when one is given; payload and fetched_at are not written.
update_yr_cache_expiry_and_last_modified(tbl, cp, new_expires, last_modified) ==
  { IF r.cp = cp
    THEN [ r EXCEPT !.expires_at = new_expires,
                    !.last_modified = IF IsSome(last_modified) THEN last_modified ELSE @ ]
    ELSE r : r \in tbl }

\* parse_expires_header: a header is [valid, at]; text that is no HTTP date
\* falls back to now + 1 hour.
parse_expires_header(h, t) ==
  IF h.valid THEN h.at ELSE t + EXPIRES_FALLBACK_HOURS * HourSecs

\* Variant of expires_or_fallback that ignores the header.
expires_or_fallback_ignoring(expires, t) ==
  t + EXPIRES_FALLBACK_HOURS * HourSecs

\* expires.as_deref().map(parse_expires_header).unwrap_or_else(|| now + 1h)
expires_or_fallback(expires, t) ==
  IF IsSome(expires) THEN parse_expires_header(Unwrap(expires), t)
  ELSE t + EXPIRES_FALLBACK_HOURS * HourSecs

\* ------------------------------------------------------------- the provider
\* The document the provider serves for a location at model run ver.  Its
\* weather values (data) are those of the location; entries: two hourly ones
\* and a six-hourly one.
Stamp(secs) == [ valid |-> TRUE, local |-> secs, offset |-> 0 ]

Timeseries(loc) ==
  << [ time |-> Stamp(0),            next_1_hours |-> TRUE,  data |-> loc ],
     [ time |-> Stamp(HourSecs),     next_1_hours |-> TRUE,  data |-> loc ],
     [ time |-> Stamp(6 * HourSecs), next_1_hours |-> FALSE, data |-> loc ] >>

\* Whether the document of model run ver carries meta.updated_at: the
\* provider omits it in every second run.
HasMeta(ver) == ver % 2 = 1

\* serde_json::from_value::<YrResponse>(raw_json) and meta.updated_at.
Document(raw_json) ==
  [ model_run  |-> IF HasMeta(raw_json.ver) THEN Some(raw_json.ver) ELSE None,
    timeseries |-> Timeseries(raw_json.loc) ]

\* The times a request may ask for: between the first two entries, and
\* beyond the coverage of the timeseries.
RequestTimes == { HourSecs \div 2, 10 * HourSecs }

\* What the HTTP exchange for checkpoint cp can end in at time t: the
\* transport fails, or a status arrives with its body (None: no JSON) and
\* its Expires and Last-Modified headers.
HttpOutcomes(cp, t) ==
  LET expires == { None, Some([ valid |-> FALSE, at |-> 0 ]),
                   Some([ valid |-> TRUE, at |-> t + HourSecs \div 2 ]) }
      lastmod == { None, Some(upRun) }
      body    == [ loc |-> cp, ver |-> upRun ]
  IN  { [ http |-> h, body |-> None, expires |-> None, last_modified |-> None ] :
          h \in { "transport_error", "status_500" } }
      \cup
      { [ http |-> "status_200", body |-> b, expires |-> e, last_modified |-> m ] :
          b \in { None, Some(body) }, e \in expires, m \in lastmod }
      \cup
      { [ http |-> "status_304", body |-> None, expires |-> e, last_modified |-> m ] :
          e \in expires, m \in lastmod }

\* The same for a provider that keeps to the protocol: it answers 304 only to
\* a request whose If-Modified-Since (the token of the row read in step 2) is
\* the Last-Modified of the run it serves.
ConditionalOutcomes(e, t) ==
  { o \in HttpOutcomes(e.cp, t) :
      o.http = "status_304" =>
        /\ IsSome(e.existing)
        /\ Unwrap(e.existing).last_modified = Some(upRun) }

\* The exchanges that fail: no response, or a status that is neither a
\* success nor 304.
ExchangeFailed(o) == o.http \in { "transport_error", "status_500" }

YrErr == [ kind |-> "Err", expires |-> None, last_modified |-> None, raw_json |-> None ]

\* Variant of fetch_timeseries without the check of the status: whatever is
\* no 200 is taken as "not modified".
fetch_timeseries_any_status(o) ==
  IF o.http = "transport_error" THEN YrErr
  ELSE IF o.http # "status_200"
  THEN [ kind |-> "NotModified", expires |-> o.expires,
         last_modified |-> o.last_modified, raw_json |-> None ]
  ELSE IF ~IsSome(o.body) THEN YrErr
  ELSE [ kind |-> "NewData", expires |-> o.expires,
         last_modified |-> o.last_modified, raw_json |-> o.body ]

\* YrClient::fetch_timeseries, from the response on: send() failing, 304,
\* a status that is no success, and a body that is no JSON (body = None).
fetch_timeseries(o) ==
  IF o.http = "transport_error" THEN YrErr
  ELSE IF o.http = "status_304"
  THEN [ kind |-> "NotModified", expires |-> o.expires,
         last_modified |-> o.last_modified, raw_json |-> None ]
  ELSE IF o.http # "status_200" THEN YrErr
  ELSE IF ~IsSome(o.body) THEN YrErr
  ELSE [ kind |-> "NewData", expires |-> o.expires,
         last_modified |-> o.last_modified, raw_json |-> o.body ]

\* ------------------------------------------- forecast.rs: ensure_yr_cache_fresh
\* One call in progress.  pc: check (step 1), any (step 2), http (request
\* sent), write (response received), done.  existing is the row step 2 read
\* and resp the result of fetch_timeseries, both held until the call ends.
\* nUp, nWr count the upstream requests and the storage writes of the call;
\* arm names the way the call ended: hit (step 1 returned), failed (the
\* exchange failed), body (a 200 that is no JSON), norow (304 without a
\* row), new (NewData arm), notmod (NotModified arm); http is the outcome of
\* the exchange as the provider gave it, and had_row whether the checkpoint
\* had a row when the call wrote.
Ok(v) == [ ok |-> TRUE, val |-> Some(v) ]
Err == [ ok |-> FALSE, val |-> None ]

IdleCall ==
  [ pc |-> "idle", cp |-> 0, existing |-> None, resp |-> None, out |-> None,
    nUp |-> 0, nWr |-> 0, arm |-> "none", http |-> "none", had_row |-> FALSE ]

StartCall(cp) == [ IdleCall EXCEPT !.pc = "check", !.cp = cp ]

Slots ==
  ({ "r" } \X (1..NumResolvers)) \cup ({ "b" } \X (1..BatchLen)) \cup { << "p", 1 >> }

\* Step 1: a non-expired row is returned as it is.
ensure_fresh_cached(e, tbl, t) ==
  LET cached == get_yr_cached_response(tbl, e.cp, t)
  IN  IF IsSome(cached)
      THEN [ e EXCEPT !.pc = "done", !.arm = "hit",
                      !.out = Some(Ok(Unwrap(cached).raw_response)) ]
      ELSE [ e EXCEPT !.pc = "any" ]

\* Step 2: the row whatever its expiry, then the conditional request is sent.
ensure_fresh_request(e, tbl) ==
  [ e EXCEPT !.pc = "http", !.existing = get_yr_cached_response_any(tbl, e.cp),
             !.nUp = @ + 1 ]

\* Variant of ensure_fresh_response in which a 304 without a row succeeds.
ensure_fresh_response_lenient(e, o) ==
  LET r == fetch_timeseries(o)
  IN  IF r.kind = "Err"
      THEN [ e EXCEPT !.pc = "done", !.out = Some(Err), !.existing = None,
                      !.http = o.http,
                      !.arm = IF ExchangeFailed(o) THEN "failed" ELSE "body" ]
      ELSE IF r.kind = "NotModified" /\ ~IsSome(e.existing)
      THEN [ e EXCEPT !.pc = "done", !.out = Some(Ok([ loc |-> e.cp, ver |-> 1 ])),
                      !.http = o.http, !.arm = "norow" ]
      ELSE [ e EXCEPT !.pc = "write", !.resp = Some(r), !.http = o.http ]

\* The response arrives: `?` on an error, and the 304 without a row.
ensure_fresh_response(e, o) ==
  LET r == fetch_timeseries(o)
  IN  IF r.kind = "Err"
      THEN [ e EXCEPT !.pc = "done", !.out = Some(Err), !.existing = None,
                      !.http = o.http,
                      !.arm = IF ExchangeFailed(o) THEN "failed" ELSE "body" ]
      ELSE IF r.kind = "NotModified" /\ ~IsSome(e.existing)
      THEN [ e EXCEPT !.pc = "done", !.out = Some(Err), !.http = o.http,
                      !.arm = "norow" ]
      ELSE [ e EXCEPT !.pc = "write", !.resp = Some(r), !.http = o.http ]

\* Variant of ensure_fresh_write whose NotModified arm also stores the payload
\* again.
ensure_fresh_write_twice(tbl, e, t) ==
  LET r == Unwrap(e.resp)
      bumped == update_yr_cache_expiry_and_last_modified(
                  tbl, e.cp, expires_or_fallback(r.expires, t), r.last_modified)
  IN  IF r.kind = "NewData"
      THEN upsert_yr_cached_response(tbl, e.cp, t, expires_or_fallback(r.expires, t),
                                     r.last_modified, Unwrap(r.raw_json))
      ELSE upsert_yr_cached_response(bumped, e.cp, t, expires_or_fallback(r.expires, t),
                                     r.last_modified, Unwrap(e.existing).raw_response)

\* The storage write of the NewData / NotModified arm.
ensure_fresh_write(tbl, e, t) ==
  LET r == Unwrap(e.resp)
  IN  IF r.kind = "NewData"
      THEN upsert_yr_cached_response(tbl, e.cp, t, expires_or_fallback(r.expires, t),
                                     r.last_modified, Unwrap(r.raw_json))
      ELSE update_yr_cache_expiry_and_last_modified(
             tbl, e.cp, expires_or_fallback(r.expires, t), r.last_modified)

\* What the arm returns.
ensure_fresh_result(e) ==
  LET r == Unwrap(e.resp)
  IN  IF r.kind = "NewData" THEN Ok(Unwrap(r.raw_json))
      ELSE Ok(Unwrap(e.existing).raw_response)

\* Variant of buffer_unordered_start that polls every future at once.
buffer_unordered_start_all(n) == [ i \in 1..n |-> "running" ]

\* buffer_unordered(MAX_CONCURRENT_YR_FETCHES), first poll of a stream of n
\* futures: the first MAX_CONCURRENT_YR_FETCHES are polled, the others wait.
buffer_unordered_start(n) ==
  [ i \in 1..n |-> IF i <= MAX_CONCURRENT_YR_FETCHES THEN "running" ELSE "queued" ]

\* stream::iter(futures).buffer_unordered(MAX_CONCURRENT_YR_FETCHES).collect():
\* a future that completes is appended to fetch_results there and then, and
\* the next queued future (in input order) takes its place.  owner records
\* which future each element of fetch_results came from.
buffer_unordered_collect(b, s, e) ==
  IF s[1] = "b" /\ e.pc = "done"
  THEN LET queued == { i \in DOMAIN b.fut : b.fut[i] = "queued" }
           nxt == IF queued = {} THEN 0 ELSE CHOOSE i \in queued : \A j \in queued : i <= j
       IN  [ b EXCEPT !.fetch_results = Append(@, Unwrap(e.out)),
                      !.owner = Append(@, s[2]),
                      !.fut = [ i \in DOMAIN @ |->
                                 IF i = s[2] THEN "collected"
                                 ELSE IF i = nxt THEN "running" ELSE @[i] ] ]
  ELSE b

\* The slots of the futures that buffer_unordered starts on a completion.
Spawned(b, b2) == { i \in DOMAIN b.fut : b.fut[i] = "queued" /\ b2.fut[i] = "running" }

\* A step of one ensure_yr_cache_fresh call that takes slot s to e.
EfStep(s, e) ==
  LET b2 == buffer_unordered_collect(batch, s, e)
  IN  /\ batch' = b2
      /\ ef' = [ x \in DOMAIN ef |->
                  IF x = s THEN e
                  ELSE IF x[1] = "b" /\ x[2] \in Spawned(batch, b2)
                       THEN StartCall(batch.items[x[2]][1])
                       ELSE ef[x] ]

EfCheck(s) ==
  /\ ef[s].pc = "check"
  /\ EfStep(s, ensure_fresh_cached(ef[s], cache, now))
  /\ UNCHANGED << now, upRun, cache, forecasts, res, poller, nops, xin, xout, statusReq >>

EfRequest(s) ==
  /\ ef[s].pc = "any"
  /\ EfStep(s, ensure_fresh_request(ef[s], cache))
  /\ UNCHANGED << now, upRun, cache, forecasts, res, poller, nops, xin, xout, statusReq >>

EfResponse(s) ==
  /\ ef[s].pc = "http"
  /\ \E o \in HttpOutcomes(ef[s].cp, now) :
       EfStep(s, ensure_fresh_response(ef[s], o))
  /\ UNCHANGED << now, upRun, cache, forecasts, res, poller, nops, xin, xout, statusReq >>

\* The response of a provider that keeps to the protocol.
EfConditionalResponse(s) ==
  /\ ef[s].pc = "http"
  /\ \E o \in ConditionalOutcomes(ef[s], now) :
       EfStep(s, ensure_fresh_response(ef[s], o))
  /\ UNCHANGED << now, upRun, cache, forecasts, res, poller, nops, xin, xout, statusReq >>

EfWrite(s) ==
  /\ ef[s].pc = "write"
  /\ cache' = ensure_fresh_write(cache, ef[s], now)
  /\ EfStep(s, [ ef[s] EXCEPT !.pc = "done", !.nWr = @ + 1,
                              !.arm = IF Unwrap(ef[s].resp).kind = "NewData"
                                      THEN "new" ELSE "notmod",
                              !.out = Some(ensure_fresh_result(ef[s])),
                              !.had_row = \E r \in cache : r.cp = ef[s].cp,
                              !.existing = None, !.resp = None ])
  /\ UNCHANGED << now, upRun, forecasts, res, poller, nops, xin, xout, statusReq >>

\* ---------------------------------------------------- forecast.rs: resolve_forecast
build_single_insert_params(checkpoint_id, parsed, fetched_at) ==
  [ cp              |-> checkpoint_id,
    forecast_time   |-> parsed.forecast_time,
    fetched_at      |-> fetched_at,
    yr_model_run_at |-> parsed.yr_model_run_at,
    data            |-> parsed.data ]

\* A request.  pc: idle, ef (awaiting ensure_yr_cache_fresh), requery (row
\* inserted, awaiting the re-read), done.  fresh_ok, near, extracted record
\* what the request saw: the outcome of ensure_yr_cache_fresh, the stored rows
\* of the checkpoint within the lookup window when the fallback ran, and the
\* entry the extractor returned.
\* peers records the requests this one ran concurrently with: those in
\* progress when it started, and those started while it was in progress.
IdleRequest ==
  [ pc |-> "idle", cp |-> 0, t |-> 0, horizon |-> None, fresh_ok |-> FALSE,
    near |-> {}, extracted |-> None, inserted |-> None, result |-> None,
    peers |-> {} ]

InProgress(k) == res[k].pc \in { "ef", "requery" }

Outcome(err, forecast, is_stale, horizon) ==
  [ err |-> err, forecast |-> forecast, is_stale |-> is_stale, horizon |-> horizon ]

NearRows(tbl, cp, t) ==
  { tbl[i] : i \in { j \in 1..Len(tbl) :
       /\ tbl[j].cp = cp
       /\ Abs(tbl[j].forecast_time - t) <= FORECAST_TIME_TOLERANCE_HOURS * HourSecs } }

\* A request for one of the given times arrives.
ResolveStartAt(k, times) ==
  /\ res[k].pc \in { "idle", "done" }
  /\ nops < MaxOps
  /\ \E cp \in Checkpoints, t \in times :
       /\ res' = [ j \in DOMAIN res |->
                    IF j = k
                    THEN [ IdleRequest EXCEPT !.pc = "ef", !.cp = cp, !.t = t,
                             !.peers = { i \in DOMAIN res \ { k } : InProgress(i) } ]
                    ELSE IF InProgress(j)
                    THEN [ res[j] EXCEPT !.peers = @ \cup { k } ]
                    ELSE [ res[j] EXCEPT !.peers = @ \ { k } ] ]
       /\ ef' = [ ef EXCEPT ![<< "r", k >>] = StartCall(cp) ]
  /\ nops' = nops + 1
  /\ UNCHANGED << now, upRun, cache, forecasts, batch, poller, xin, xout, statusReq >>

ResolveStart(k) == ResolveStartAt(k, RequestTimes)

\* Variant of resolve_fallback that does not flag the stored record as stale.
resolve_fallback_unflagged(r, cached) ==
  IF IsSome(cached) THEN Outcome(FALSE, cached, FALSE, None)
  ELSE Outcome(TRUE, None, FALSE, None)

\* Step 1, the Err arm: the stale fallback.
resolve_fallback(r, cached) ==
  IF IsSome(cached) THEN Outcome(FALSE, cached, TRUE, None)
  ELSE Outcome(TRUE, None, FALSE, None)

ResolveFallback(k) ==
  LET s == << "r", k >>
  IN  /\ res[k].pc = "ef"
      /\ ef[s].pc = "done"
      /\ ~Unwrap(ef[s].out).ok
      /\ \E cached \in get_latest_forecast(forecasts, res[k].cp, res[k].t) :
           res' = [ res EXCEPT ![k] =
                      [ @ EXCEPT !.pc = "done", !.fresh_ok = FALSE,
                                 !.near = NearRows(forecasts, res[k].cp, res[k].t),
                                 !.result = Some(resolve_fallback(res[k], cached)) ] ]
      /\ ef' = [ ef EXCEPT ![s] = IdleCall ]
      /\ UNCHANGED << now, upRun, cache, forecasts, batch, poller, nops, xin, xout, statusReq >>

\* Variant of resolve_unavailable that treats the missing entry as an error.
resolve_unavailable_error(forecast_horizon) ==
  Outcome(TRUE, None, FALSE, None)

\* The None arm of the match on the extracted entry: Ok((None, false,
\* Some(forecast_horizon))).
resolve_unavailable(forecast_horizon) ==
  Outcome(FALSE, None, FALSE, forecast_horizon)

\* Steps 2 and 3: extract for [forecast_time]; an entry is inserted, no
\* entry is the "unavailable" outcome, an extraction error is returned by `?`.
ResolveExtract(k) ==
  LET s  == << "r", k >>
      ex == extract_forecasts_at_times(Document(Unwrap(Unwrap(ef[s].out).val)), << res[k].t >>)
      mp == ex.forecasts[1]
      ins == insert_forecast(forecasts,
               build_single_insert_params(res[k].cp, Unwrap(mp), now))
  IN  /\ res[k].pc = "ef"
      /\ ef[s].pc = "done"
      /\ Unwrap(ef[s].out).ok
      /\ IF ~ex.ok
         THEN /\ res' = [ res EXCEPT ![k] =
                            [ @ EXCEPT !.pc = "done", !.fresh_ok = TRUE,
                                       !.result = Some(Outcome(TRUE, None, FALSE, None)) ] ]
              /\ UNCHANGED forecasts
         ELSE IF IsSome(mp)
         THEN /\ forecasts' = ins.tbl
              /\ res' = [ res EXCEPT ![k] =
                            [ @ EXCEPT !.pc = "requery", !.fresh_ok = TRUE, !.extracted = mp,
                                       !.inserted = ins.inserted,
                                       !.horizon = ex.forecast_horizon ] ]
         ELSE /\ res' = [ res EXCEPT ![k] =
                            [ @ EXCEPT !.pc = "done", !.fresh_ok = TRUE,
                                       !.horizon = ex.forecast_horizon,
                                       !.result = Some(resolve_unavailable(
                                                         ex.forecast_horizon)) ] ]
              /\ UNCHANGED forecasts
      /\ ef' = [ ef EXCEPT ![s] = IdleCall ]
      /\ UNCHANGED << now, upRun, cache, batch, poller, nops, xin, xout, statusReq >>

\* Step 4: the re-read of the stored row.
ResolveRequery(k) ==
  /\ res[k].pc = "requery"
  /\ \E f \in get_latest_forecast(forecasts, res[k].cp, res[k].t) :
       res' = [ res EXCEPT ![k] =
                  [ @ EXCEPT !.pc = "done",
                             !.result = Some(Outcome(FALSE, f, FALSE, res[k].horizon)) ] ]
  /\ UNCHANGED << now, upRun, cache, forecasts, ef, batch, poller, nops, xin, xout, statusReq >>

\* --------------------------------------------- forecast.rs: resolve_race_forecasts
\* The request.  pc: idle, fetch (step 1 in progress), prefetch (all futures
\* collected), insert (step 2b), requery (step 3), done.  items is the input
\* list of (checkpoint, forecast_time); fut the state of each future.
ResolvedForecast(forecast, is_stale, forecast_horizon) ==
  [ forecast |-> forecast, is_stale |-> is_stale, forecast_horizon |-> forecast_horizon ]

IdleBatch ==
  [ pc |-> "idle", items |-> << >>, fut |-> << >>, fetch_results |-> << >>,
    owner |-> << >>, near |-> << >>, results |-> << >>, horizons |-> << >>,
    insert_params |-> << >>, pending |-> {}, err |-> FALSE ]

\* The input lists: the first BatchLen checkpoints of the course, in course
\* order, each with its pass time.
\* The list of a race is fixed: a repeated request carries the same list.
BatchInputs ==
  { it \in [ 1..BatchLen -> Checkpoints \X RequestTimes ] :
      \A i \in 1..BatchLen : it[i][1] = i }

BatchStart ==
  /\ batch.pc \in { "idle", "done" }
  /\ nops < MaxOps
  /\ \E it \in (IF batch.pc = "idle" THEN BatchInputs ELSE { batch.items }) :
       LET started == { i \in 1..BatchLen : buffer_unordered_start(BatchLen)[i] = "running" }
       IN  /\ batch' = [ IdleBatch EXCEPT
                           !.pc = "fetch", !.items = it,
                           !.fut = buffer_unordered_start(BatchLen) ]
           /\ ef' = [ x \in DOMAIN ef |->
                        IF x[1] = "b"
                        THEN (IF x[2] \in started THEN StartCall(it[x[2]][1]) ELSE IdleCall)
                        ELSE ef[x] ]
  /\ nops' = nops + 1
  /\ UNCHANGED << now, upRun, cache, forecasts, res, poller, xin, xout, statusReq >>

\* The loop of step 2 over fetch_results.into_iter().enumerate(), from
\* index idx on; acc is [err, results, horizons, insert_params].
RECURSIVE handle_fetch_results(_, _, _, _, _, _)
handle_fetch_results(items, fetch_results, cached_forecasts, t, idx, acc) ==
  IF idx > Len(fetch_results) THEN acc
  ELSE
    LET fr == fetch_results[idx]
    IN  IF fr.ok
        THEN LET ex == extract_forecasts_at_times(Document(Unwrap(fr.val)), << items[idx][2] >>)
             IN  IF ~ex.ok THEN [ acc EXCEPT !.err = TRUE ]
                 ELSE IF IsSome(ex.forecasts[1])
                 THEN handle_fetch_results(items, fetch_results, cached_forecasts, t, idx + 1,
                        [ acc EXCEPT
                            !.insert_params = Append(@, build_single_insert_params(
                                                items[idx][1], Unwrap(ex.forecasts[1]), t)),
                            !.results[idx] = None,
                            !.horizons[idx] = ex.forecast_horizon ])
                 ELSE handle_fetch_results(items, fetch_results, cached_forecasts, t, idx + 1,
                        [ acc EXCEPT
                            !.results[idx] = Some(ResolvedForecast(None, FALSE,
                                                                   ex.forecast_horizon)) ])
        ELSE IF IsSome(cached_forecasts[idx])
             THEN handle_fetch_results(items, fetch_results, cached_forecasts, t, idx + 1,
                    [ acc EXCEPT
                        !.results[idx] = Some(ResolvedForecast(cached_forecasts[idx],
                                                               TRUE, None)) ])
             ELSE [ acc EXCEPT !.err = TRUE ]

\* Variant of after_fetch_results that runs the collected inserts whether or
\* not the loop failed.
after_fetch_results_always_insert(acc) ==
  [ pc      |-> IF acc.insert_params # << >> THEN "insert"
                ELSE IF acc.err THEN "done" ELSE "requery",
    pending |-> DOMAIN acc.insert_params ]

\* Where the request goes after the loop: `return Err(..)` ends it there, and
\* otherwise step 2b runs the collected inserts, if any, before step 3.
after_fetch_results(acc) ==
  [ pc      |-> IF acc.err THEN "done"
                ELSE IF acc.insert_params = << >> THEN "requery" ELSE "insert",
    pending |-> IF acc.err THEN {} ELSE DOMAIN acc.insert_params ]

\* Step 2: the batched read for the fallback, then the loop.
BatchPrefetch ==
  /\ batch.pc = "fetch"
  /\ \A i \in DOMAIN batch.fut : batch.fut[i] = "collected"
  /\ \E cached_forecasts \in get_latest_forecasts_batch(forecasts, batch.items) :
       LET n   == Len(batch.items)
           acc == handle_fetch_results(batch.items, batch.fetch_results, cached_forecasts,
                    now, 1,
                    [ err |-> FALSE, results |-> [ i \in 1..n |-> None ],
                      horizons |-> [ i \in 1..n |-> None ], insert_params |-> << >> ])
           nxt == after_fetch_results(acc)
       IN  batch' = [ batch EXCEPT
                        !.pc = nxt.pc, !.err = acc.err, !.results = acc.results,
                        !.horizons = acc.horizons, !.insert_params = acc.insert_params,
                        !.pending = nxt.pending,
                        !.near = [ i \in 1..n |->
                                     NearRows(forecasts, batch.items[i][1], batch.items[i][2]) ] ]
  /\ UNCHANGED << now, upRun, cache, forecasts, ef, res, poller, nops, xin, xout, statusReq >>

\* Step 2b: join_all over the inserts: each statement runs on its own.
BatchInsert(j) ==
  /\ batch.pc = "insert"
  /\ j \in batch.pending
  /\ forecasts' = insert_forecast(forecasts, batch.insert_params[j]).tbl
  /\ batch' = [ batch EXCEPT !.pending = @ \ { j },
                             !.pc = IF batch.pending = { j } THEN "requery" ELSE @ ]
  /\ UNCHANGED << now, upRun, cache, ef, res, poller, nops, xin, xout, statusReq >>

\* The indices still None, in order: those the re-query is made for.
requery_indices(results) ==
  LET F[i \in 0..Len(results)] ==
        IF i = 0 THEN << >>
        ELSE IF results[i] = None THEN Append(F[i - 1], i) ELSE F[i - 1]
  IN  F[Len(results)]

\* The fill loop of step 3: the k-th None result takes the k-th re-queried row.
fill_results(results, horizons, requeried) ==
  LET idxs == requery_indices(results)
  IN  [ i \in 1..Len(results) |->
          IF results[i] = None
          THEN LET k == CHOOSE k \in 1..Len(idxs) : idxs[k] = i
               IN  Some(ResolvedForecast(requeried[k], FALSE, horizons[i]))
          ELSE results[i] ]

BatchRequery ==
  /\ batch.pc = "requery"
  /\ LET idxs  == requery_indices(batch.results)
         pairs == [ k \in 1..Len(idxs) |-> batch.items[idxs[k]] ]
     IN  \E requeried \in get_latest_forecasts_batch(forecasts, pairs) :
           batch' = [ batch EXCEPT
                        !.pc = "done",
                        !.results = fill_results(batch.results, batch.horizons, requeried) ]
  /\ UNCHANGED << now, upRun, cache, forecasts, ef, res, poller, nops, xin, xout, statusReq >>

\* ------------------------------------------------------------ poller.rs: poller
\* The race the poller finds: its start and the distance of each checkpoint.
RaceStart == 0

\* distance_km is an f64: the model keeps it in metres (KmScale to the km), so
\* that an arrival can fall between two whole seconds.
DistanceKm(cp) == (cp - 1) * POLLER_MAX_SPEED_KMH * KmScale

floor_to_hour(t) == (t \div HourSecs) * HourSecs
ceil_to_hour(t) == IF t % HourSecs = 0 THEN t ELSE floor_to_hour(t) + HourSecs

\* (hours * 3600.0) as i64 with hours = distance_km / speed: the cast drops
\* the fraction of a second (distance_km > 0 here).
arrival_secs(distance_km, speed) == (distance_km * HourSecs) \div (speed * KmScale)

\* compute_extraction_times: the hourly slots from the earliest arrival
\* (fastest pace, floored) to the latest (slowest pace, ceiled).
compute_extraction_times(race_start, distance_km) ==
  IF distance_km <= 0 THEN << floor_to_hour(race_start) >>
  ELSE LET earliest_arrival == race_start + arrival_secs(distance_km, POLLER_MAX_SPEED_KMH)
           latest_arrival   == race_start + arrival_secs(distance_km, POLLER_MIN_SPEED_KMH)
           first_slot == floor_to_hour(earliest_arrival)
           last_slot  == ceil_to_hour(latest_arrival)
       IN  [ i \in 1..((last_slot - first_slot) \div HourSecs + 1) |->
               first_slot + (i - 1) * HourSecs ]

\* The poller.  pc: sleep (sleep_secs until wake_at), pre
\* (build_pre_fetched_map at checkpoint idx), poll (poll_single_checkpoint
\* awaits ensure_yr_cache_fresh), post (step 2), insert (step 4, todo = the
\* rows still to insert), retry_sleep (the delay of retry pass `retry`),
\* finalize.  retry is 0 in the pass of poll_all_checkpoints and the number of
\* the pass in retry_304_checkpoints.  total_polls is the cycle counter of the
\* PollerState and sleep_duration what finalize_poll_cycle returned last.
\* The shared Arc<RwLock<PollerState>> is kept in the same record: guard is
\* the lock (the write guard taken or not, the number of read guards), and
\* checkpoints, next_wakeup_at, last_poll_completed_at and total_polls are the
\* fields of the PollerState.  pub is where the poller is with a block
\* `{ let mut s = state.write().await; ... }`: none, want (awaiting the
\* guard), held.  refresh_arm records the way the ensure_yr_cache_fresh call of
\* the checkpoint being polled ended (the arm of that call).
IdlePoller ==
  [ pc |-> "sleep", idx |-> 0, pre_fetched_at |-> << >>, raw_json |-> None,
    fetched_at |-> 0, todo |-> << >>, statuses |-> << >>, any_got_304 |-> FALSE,
    retry |-> 0, still_304 |-> FALSE, wake_at |-> 0, total_polls |-> 0,
    sleep_duration |-> None, pub |-> "none",
    guard |-> [ writer |-> FALSE, readers |-> 0 ],
    checkpoints |-> << >>, next_wakeup_at |-> None,
    last_poll_completed_at |-> None, refresh_arm |-> "none" ]

\* What a cycle keeps of the record: the shared state and what the last
\* finalize_poll_cycle returned.
NewCycle(pl) ==
  [ IdlePoller EXCEPT !.total_polls = pl.total_polls,
                      !.sleep_duration = pl.sleep_duration,
                      !.guard = pl.guard,
                      !.checkpoints = pl.checkpoints,
                      !.next_wakeup_at = pl.next_wakeup_at,
                      !.last_poll_completed_at = pl.last_poll_completed_at ]

PollSlot == << "p", 1 >>

\* run_poller, top of the loop, once the sleep is over: a cycle starts with
\* build_pre_fetched_map.
PollStart ==
  /\ poller.pc = "sleep"
  /\ now >= poller.wake_at
  /\ nops < MaxOps
  /\ poller.pub = "none"
  /\ poller' = [ NewCycle(poller) EXCEPT !.pc = "pre", !.idx = 1 ]
  /\ nops' = nops + 1
  /\ UNCHANGED << now, upRun, cache, forecasts, ef, res, batch, xin, xout, statusReq >>

\* run_poller, top of the loop, when get_upcoming_races_with_checkpoints
\* returns no race: handle_no_races up to state.write().await.
PollNoRaces ==
  /\ poller.pc = "sleep"
  /\ now >= poller.wake_at
  /\ nops < MaxOps
  /\ poller.pub = "none"
  /\ poller' = [ NewCycle(poller) EXCEPT !.pc = "no_races", !.pub = "want" ]
  /\ nops' = nops + 1
  /\ UNCHANGED << now, upRun, cache, forecasts, ef, res, batch, xin, xout, statusReq >>

\* Variant of race_query_failed that leaves the loop.
race_query_failed_returns(pl, t) ==
  [ NewCycle(pl) EXCEPT !.pc = "returned" ]

\* The Err arm of the race query: sleep_secs(POLLER_MIN_SLEEP_SECS), then
\* `continue`.
race_query_failed(pl, t) ==
  [ NewCycle(pl) EXCEPT !.wake_at = t + POLLER_MIN_SLEEP_SECS ]

\* run_poller, top of the loop, when get_upcoming_races_with_checkpoints
\* fails.
PollRaceQueryFails ==
  /\ poller.pc = "sleep"
  /\ now >= poller.wake_at
  /\ nops < MaxOps
  /\ poller.pub = "none"
  /\ poller' = race_query_failed(poller, now)
  /\ nops' = nops + 1
  /\ UNCHANGED << now, upRun, cache, forecasts, ef, res, batch, xin, xout, statusReq >>

\* build_pre_fetched_map, one checkpoint: the fetched_at of its row, if any.
\* After the last one poll_all_checkpoints starts with the first checkpoint.
PollPre ==
  /\ poller.pc = "pre"
  /\ LET cached == get_yr_cached_response_any(cache, poller.idx)
         entry  == IF IsSome(cached) THEN Some(Unwrap(cached).fetched_at) ELSE None
         last   == poller.idx = NumCheckpoints
     IN  /\ poller' = [ poller EXCEPT !.pre_fetched_at = Append(@, entry),
                                      !.idx = IF last THEN 1 ELSE @ + 1,
                                      !.pc = IF last THEN "poll" ELSE "pre" ]
         /\ ef' = IF last THEN [ ef EXCEPT ![PollSlot] = StartCall(1) ] ELSE ef
  /\ UNCHANGED << now, upRun, cache, forecasts, res, batch, nops, xin, xout, statusReq >>

\* Variant of next_not_modified without the `continue`: the next checkpoint
\* whatever its status.
next_whatever_status(statuses, i) ==
  IF i < Len(statuses) THEN i + 1 ELSE 0

\* The first checkpoint after index i whose status is "not_modified", 0 when
\* there is none: the `continue` of the loop of retry_304_checkpoints.
next_not_modified(statuses, i) ==
  LET later == { j \in (i + 1)..Len(statuses) : statuses[j] = "not_modified" }
  IN  IF later = {} THEN 0 ELSE CHOOSE j \in later : \A h \in later : j <= h

\* Variant of next_to_poll in which an error ends the pass.
next_to_poll_until_error(pl, status) ==
  IF status = "error" THEN 0
  ELSE IF pl.retry = 0
  THEN (IF pl.idx = NumCheckpoints THEN 0 ELSE pl.idx + 1)
  ELSE next_not_modified(pl.statuses, pl.idx)

\* The checkpoint polled after checkpoint idx got its status, 0 at the end of
\* the pass: the next of all_checkpoints in poll_all_checkpoints, the next
\* "not_modified" one in a pass of retry_304_checkpoints.
next_to_poll(pl, status) ==
  IF pl.retry = 0
  THEN (IF pl.idx = NumCheckpoints THEN 0 ELSE pl.idx + 1)
  ELSE next_not_modified(pl.statuses, pl.idx)

\* Variant of retry_passes_left that goes on after the last pass.
retry_passes_unbounded(pl) == TRUE

\* for retry in 1..=POLLER_MAX_RETRIES: whether another pass may follow.
retry_passes_left(pl) == pl.retry < POLLER_MAX_RETRIES

\* The result of poll_single_checkpoint for checkpoint idx, at time t.  In
\* poll_all_checkpoints build_poll_status pushes the status and the next
\* checkpoint is polled; after the last one the retry loop is entered when
\* any_got_304, finalize_poll_cycle otherwise.  In a pass of
\* retry_304_checkpoints NewData and Error replace the status, NotModified
\* sets still_304, and the next "not_modified" checkpoint is polled; after
\* the last one the loop breaks unless still_304 and a pass is left.  Every
\* pass ends with the block that publishes checkpoint_statuses.
poll_advance(pl, status, t) ==
  LET first_pass == pl.retry = 0
      statuses == IF first_pass THEN Append(pl.statuses, status)
                  ELSE IF status = "not_modified" THEN pl.statuses
                  ELSE [ pl.statuses EXCEPT ![pl.idx] = status ]
      any      == pl.any_got_304 \/ (first_pass /\ status = "not_modified")
      still    == pl.still_304 \/ (~first_pass /\ status = "not_modified")
      nxt      == next_to_poll(pl, status)
      again    == IF first_pass THEN any ELSE still /\ retry_passes_left(pl)
      base     == [ pl EXCEPT !.statuses = statuses, !.any_got_304 = any,
                              !.still_304 = still, !.raw_json = None,
                              !.todo = << >>, !.fetched_at = 0,
                              !.refresh_arm = "none" ]
  IN  IF nxt # 0 THEN [ base EXCEPT !.idx = nxt, !.pc = "poll" ]
      ELSE IF again
      THEN [ base EXCEPT !.idx = 0, !.pc = "retry_sleep", !.retry = @ + 1,
                         !.wake_at = t + POLLER_RETRY_DELAY_SECS, !.pub = "want" ]
      ELSE [ base EXCEPT !.idx = 0, !.pc = "finalize", !.pub = "want" ]

PollAdvance(status) ==
  /\ poller' = poll_advance(poller, status, now)
  /\ ef' = [ ef EXCEPT ![PollSlot] =
               IF poller'.pc = "poll" THEN StartCall(poller'.idx) ELSE IdleCall ]

\* poll_single_checkpoint, step 1: the outcome of ensure_yr_cache_fresh.
PollRefreshed ==
  /\ poller.pc = "poll"
  /\ ef[PollSlot].pc = "done"
  /\ LET out == Unwrap(ef[PollSlot].out)
     IN  IF out.ok
         THEN /\ poller' = [ poller EXCEPT !.pc = "post", !.raw_json = out.val,
                                            !.refresh_arm = ef[PollSlot].arm ]
              /\ ef' = [ ef EXCEPT ![PollSlot] = IdleCall ]
         ELSE PollAdvance("error")
  /\ UNCHANGED << now, upRun, cache, forecasts, res, batch, nops, xin, xout, statusReq >>

\* Step 3 for every payload the provider can serve and every checkpoint: the
\* band of the checkpoint and what the extractor returns for it.
PollExtractions ==
  { [ raw_json |-> raw, cp |-> cp,
      result |-> extract_forecasts_at_times(
                   Document(raw), compute_extraction_times(RaceStart, DistanceKm(cp))) ] :
      raw \in [ loc : Checkpoints, ver : 1..MaxRun ], cp \in Checkpoints }

poll_extraction(raw_json, cp) ==
  (CHOOSE x \in PollExtractions : x.raw_json = raw_json /\ x.cp = cp).result

\* Steps 2 and 3: the row is read again; the same fetched_at as before the
\* cycle is "not modified", otherwise the band of times is extracted.
PollPost ==
  /\ poller.pc = "post"
  /\ LET cp         == poller.idx
         post_cache == get_yr_cached_response_any(cache, cp)
         pre        == poller.pre_fetched_at[cp]
         got_new    == IF IsSome(pre) THEN Unwrap(post_cache).fetched_at # Unwrap(pre)
                       ELSE TRUE
         ex         == poll_extraction(Unwrap(poller.raw_json), cp)
         found      == SelectSeq(ex.forecasts, IsSome)
         params     == [ i \in 1..Len(found) |->
                           build_single_insert_params(cp, Unwrap(found[i]),
                                                      Unwrap(post_cache).fetched_at) ]
     IN  IF ~IsSome(post_cache) THEN PollAdvance("error")
         ELSE IF ~got_new THEN PollAdvance("not_modified")
         ELSE IF ~ex.ok THEN PollAdvance("error")
         ELSE IF params = << >> THEN PollAdvance("new_data")
         ELSE /\ poller' = [ poller EXCEPT !.pc = "insert", !.todo = params ]
              /\ UNCHANGED ef
  /\ UNCHANGED << now, upRun, cache, forecasts, res, batch, nops, xin, xout, statusReq >>

\* Step 4: one insert of the loop; Ok(Some), Ok(None) and Err all go on.
PollInsert ==
  /\ poller.pc = "insert"
  /\ forecasts' = insert_forecast(forecasts, Head(poller.todo)).tbl
  /\ IF Len(poller.todo) = 1
     THEN PollAdvance("new_data")
     ELSE /\ poller' = [ poller EXCEPT !.todo = Tail(@) ]
          /\ UNCHANGED ef
  /\ UNCHANGED << now, upRun, cache, res, batch, nops, xin, xout, statusReq >>

\* Step 3 when extract_forecasts_at_times returns Err (a stored payload that
\* does not deserialize): the checkpoint's result is Error.
PollExtractFails ==
  /\ poller.pc = "post"
  /\ LET cp         == poller.idx
         post_cache == get_yr_cached_response_any(cache, cp)
         pre        == poller.pre_fetched_at[cp]
         got_new    == IF IsSome(pre) THEN Unwrap(post_cache).fetched_at # Unwrap(pre)
                       ELSE TRUE
     IN  IF IsSome(post_cache) THEN got_new ELSE FALSE
  /\ PollAdvance("error")
  /\ UNCHANGED << now, upRun, cache, forecasts, res, batch, nops, xin, xout, statusReq >>

\* Step 4 when insert_forecast returns Err: the failure is logged and the
\* loop goes on with the next row.
PollInsertFails ==
  /\ poller.pc = "insert"
  /\ IF Len(poller.todo) = 1
     THEN PollAdvance("new_data")
     ELSE /\ poller' = [ poller EXCEPT !.todo = Tail(@) ]
          /\ UNCHANGED ef
  /\ UNCHANGED << now, upRun, cache, forecasts, res, batch, nops, xin, xout, statusReq >>

\* retry_304_checkpoints, a pass after its sleep_secs(POLLER_RETRY_DELAY_SECS):
\* still_304 is reset and the first "not_modified" checkpoint is polled.
PollRetry ==
  /\ poller.pc = "retry_sleep"
  /\ poller.pub = "none"
  /\ now >= poller.wake_at
  /\ LET first == next_not_modified(poller.statuses, 0)
     IN  /\ poller' = [ poller EXCEPT !.pc = "poll", !.idx = first, !.still_304 = FALSE ]
         /\ ef' = [ ef EXCEPT ![PollSlot] = StartCall(first) ]
  /\ UNCHANGED << now, upRun, cache, forecasts, res, batch, nops, xin, xout, statusReq >>

\* queries::get_earliest_expiry(pool, checkpoint_ids): the smallest expires_at
\* among the rows of the checkpoints, None without a row.
get_earliest_expiry(tbl, checkpoint_ids) ==
  LET rows == { r \in tbl : r.cp \in checkpoint_ids }
  IN  IF rows = {} THEN None
      ELSE Some((CHOOSE r \in rows : \A q \in rows : r.expires_at <= q.expires_at).expires_at)

clamp(x, lo, hi) == IF x < lo THEN lo ELSE IF x > hi THEN hi ELSE x

\* Variant of sleep_duration_secs without the lower bound of the clamp.
sleep_duration_secs_no_min(earliest, t) ==
  LET earliest_expiry == IF IsSome(earliest) THEN Unwrap(earliest) ELSE t + POLLER_MAX_SLEEP_SECS
      next_wakeup     == earliest_expiry + POLLER_WAKEUP_BUFFER_SECS
      until_wakeup    == IF next_wakeup - t > 0 THEN next_wakeup - t ELSE 0
  IN  clamp(until_wakeup, 0, POLLER_MAX_SLEEP_SECS)

\* finalize_poll_cycle, the sleep duration: the time until the earliest expiry
\* plus the buffer, not negative, clamped; without an expiry the longest sleep.
sleep_duration_secs(earliest, t) ==
  LET earliest_expiry == IF IsSome(earliest) THEN Unwrap(earliest) ELSE t + POLLER_MAX_SLEEP_SECS
      next_wakeup     == earliest_expiry + POLLER_WAKEUP_BUFFER_SECS
      until_wakeup    == IF next_wakeup - t > 0 THEN next_wakeup - t ELSE 0
  IN  clamp(until_wakeup, POLLER_MIN_SLEEP_SECS, POLLER_MAX_SLEEP_SECS)

\* Variant of handle_no_races that leaves the checkpoint list as it is.
handle_no_races_keeps_list(pl, t) ==
  [ pl EXCEPT !.next_wakeup_at = Some(t + POLLER_NO_RACES_SLEEP_SECS),
              !.last_poll_completed_at = Some(t) ]

\* Variant of handle_no_races that counts the iteration as a poll cycle.
handle_no_races_counted(pl, t) ==
  [ pl EXCEPT !.checkpoints = << >>,
              !.next_wakeup_at = Some(t + POLLER_NO_RACES_SLEEP_SECS),
              !.last_poll_completed_at = Some(t),
              !.total_polls = @ + 1 ]

\* handle_no_races, the assignments under the guard.
handle_no_races(pl, t) ==
  [ pl EXCEPT !.checkpoints = << >>,
              !.next_wakeup_at = Some(t + POLLER_NO_RACES_SLEEP_SECS),
              !.last_poll_completed_at = Some(t) ]

\* Variant of write_guard_drop that keeps the guard.
write_guard_kept(pl) == pl

\* The end of a block `{ let mut s = state.write().await; ... }`, and of
\* handle_no_races: the guard s goes out of scope.
write_guard_drop(pl) == [ pl EXCEPT !.guard.writer = FALSE ]

\* state.write().await: the guard is granted when no guard is out.
PollLock ==
  /\ poller.pub = "want"
  /\ ~poller.guard.writer
  /\ poller.guard.readers = 0
  /\ poller' = [ poller EXCEPT !.pub = "held", !.guard.writer = TRUE ]
  /\ UNCHANGED << now, upRun, cache, forecasts, ef, res, batch, nops, xin, xout, statusReq >>

\* The body of the block and its end.  After a pass: s.checkpoints =
\* checkpoint_statuses.  In finalize_poll_cycle also the wake-up time, the
\* completion time and the cycle counter.  In handle_no_races the list is
\* cleared and the times are set, and sleep_secs(POLLER_NO_RACES_SLEEP_SECS)
\* follows the return.
PollPublish ==
  /\ poller.pub = "held"
  /\ poller' = write_guard_drop(
                 IF poller.pc = "no_races"
                 THEN [ handle_no_races(poller, now) EXCEPT
                          !.pub = "none", !.pc = "sleep",
                          !.wake_at = now + POLLER_NO_RACES_SLEEP_SECS ]
                 ELSE IF poller.pc = "sleep"
                 THEN [ poller EXCEPT !.pub = "none",
                          !.checkpoints = poller.statuses,
                          !.next_wakeup_at = Some(now + Unwrap(poller.sleep_duration)),
                          !.last_poll_completed_at = Some(now),
                          !.total_polls = @ + 1 ]
                 ELSE [ poller EXCEPT !.pub = "none",
                          !.checkpoints = poller.statuses ])
  /\ UNCHANGED << now, upRun, cache, forecasts, ef, res, batch, nops, xin, xout, statusReq >>

\* finalize_poll_cycle up to its block, and the sleep_secs that follows it in
\* run_poller: the earliest expiry is read and the sleep computed; the block
\* publishes the final state and the cycle counter before the sleep.
PollFinalize ==
  /\ poller.pc = "finalize"
  /\ poller.pub = "none"
  /\ LET d == sleep_duration_secs(get_earliest_expiry(cache, Checkpoints), now)
     IN  poller' = [ NewCycle(poller) EXCEPT !.statuses = poller.statuses,
                                            !.sleep_duration = Some(d),
                                            !.wake_at = now + d,
                                            !.pub = "want" ]
  /\ UNCHANGED << now, upRun, cache, forecasts, ef, res, batch, nops, xin, xout, statusReq >>

\* finalize_poll_cycle when get_earliest_expiry returns Err: the longest sleep
\* is taken, as without a row.
PollFinalizeQueryFails ==
  /\ poller.pc = "finalize"
  /\ poller.pub = "none"
  /\ LET d == sleep_duration_secs(None, now)
     IN  poller' = [ NewCycle(poller) EXCEPT !.statuses = poller.statuses,
                                            !.sleep_duration = Some(d),
                                            !.wake_at = now + d,
                                            !.pub = "want" ]
  /\ UNCHANGED << now, upRun, cache, forecasts, ef, res, batch, nops, xin, xout, statusReq >>

\* ------------------------------------------- routes/poller.rs: get_poller_status
\* The request.  pc: idle, held (the read guard is out), done; copy is the
\* PollerState it returned.
IdleStatus == [ pc |-> "idle", copy |-> None ]

PollerStateOf(pl) ==
  [ checkpoints |-> pl.checkpoints, next_wakeup_at |-> pl.next_wakeup_at,
    last_poll_completed_at |-> pl.last_poll_completed_at,
    total_polls |-> pl.total_polls ]

\* state.read().await: granted unless the write guard is out.
StatusRead ==
  /\ statusReq.pc \in { "idle", "done" }
  /\ ~poller.guard.writer
  /\ statusReq' = [ IdleStatus EXCEPT !.pc = "held" ]
  /\ poller' = [ poller EXCEPT !.guard.readers = @ + 1 ]
  /\ UNCHANGED << now, upRun, cache, forecasts, ef, res, batch, nops, xin, xout >>

\* Json(s.clone()) and the end of the handler, where the guard is dropped.
StatusReturn ==
  /\ statusReq.pc = "held"
  /\ statusReq' = [ statusReq EXCEPT !.pc = "done", !.copy = Some(PollerStateOf(poller)) ]
  /\ poller' = [ poller EXCEPT !.guard.readers = @ - 1 ]
  /\ UNCHANGED << now, upRun, cache, forecasts, ef, res, batch, nops, xin, xout >>

\* ------------------------------------------------------------ environment
Tick ==
  /\ now < MaxTicks * HourSecs
  /\ now' = now + HourSecs
  /\ UNCHANGED << upRun, cache, forecasts, ef, res, batch, poller, nops, xin, xout, statusReq >>

\* The provider publishes a new model run.
Publish ==
  /\ upRun < MaxRun
  /\ upRun' = upRun + 1
  /\ UNCHANGED << now, cache, forecasts, ef, res, batch, poller, nops, xin, xout, statusReq >>

\* sleep_secs of the poller: the clock moves by the retry delay while the
\* poller sleeps.
Elapse ==
  /\ \/ poller.pc = "retry_sleep"
     \/ poller.pc = "sleep" /\ nops < MaxOps
  /\ poller.pub = "none"
  /\ now < poller.wake_at
  /\ now' = now + POLLER_RETRY_DELAY_SECS
  /\ UNCHANGED << upRun, cache, forecasts, ef, res, batch, poller, nops, xin, xout, statusReq >>

\* The state after start-up: empty tables, nothing in progress.
InitSystem ==
  /\ now = 0
  /\ upRun = 1
  /\ cache = {}
  /\ forecasts = << >>
  /\ ef = [ s \in Slots |-> IdleCall ]
  /\ res = [ k \in 1..NumResolvers |-> IdleRequest ]
  /\ batch = IdleBatch
  /\ poller = IdlePoller
  /\ nops = 0
  /\ statusReq = IdleStatus

Init ==
  /\ InitSystem
  /\ xin = None
  /\ xout = None

\* Single-checkpoint requests and the poller, with the clock and the provider.
Next ==
  \/ \E s \in Slots : EfCheck(s)
  \/ \E s \in Slots : EfRequest(s)
  \/ \E s \in Slots : EfResponse(s)
  \/ \E s \in Slots : EfWrite(s)
  \/ \E k \in 1..NumResolvers : ResolveStart(k)
  \/ \E k \in 1..NumResolvers : ResolveFallback(k)
  \/ \E k \in 1..NumResolvers : ResolveExtract(k)
  \/ \E k \in 1..NumResolvers : ResolveRequery(k)
  \/ PollStart
  \/ PollPre
  \/ PollRefreshed
  \/ PollPost
  \/ PollInsert
  \/ PollRetry
  \/ PollFinalize
  \/ PollLock
  \/ PollPublish
  \/ Tick
  \/ Publish

Spec == Init /\ [][Next]_vars

\* The poller alone, with a clock that also moves by the retry delay.
NextPoller ==
  \/ \E s \in Slots : EfCheck(s)
  \/ \E s \in Slots : EfRequest(s)
  \/ \E s \in Slots : EfResponse(s)
  \/ \E s \in Slots : EfWrite(s)
  \/ PollStart
  \/ PollNoRaces
  \/ PollRaceQueryFails
  \/ PollPre
  \/ PollRefreshed
  \/ PollPost
  \/ PollInsert
  \/ PollRetry
  \/ PollFinalize
  \/ PollLock
  \/ PollPublish
  \/ Tick
  \/ Elapse

SpecPoller == Init /\ [][NextPoller]_vars

\* The poller task and its exchanges keep running: no step that stays
\* possible is put off for ever.
FairSpecPoller == SpecPoller /\ WF_vars(NextPoller)

\* The loop of run_poller with every failure it handles: of the race query,
\* of a refresh, of the extraction, of an insert and of the earliest-expiry
\* query.  The clock moves while the poller sleeps.
NextLoop ==
  \/ \E s \in Slots : EfCheck(s)
  \/ \E s \in Slots : EfRequest(s)
  \/ \E s \in Slots : EfResponse(s)
  \/ \E s \in Slots : EfWrite(s)
  \/ PollStart
  \/ PollNoRaces
  \/ PollRaceQueryFails
  \/ PollPre
  \/ PollRefreshed
  \/ PollPost
  \/ PollExtractFails
  \/ PollInsert
  \/ PollInsertFails
  \/ PollRetry
  \/ PollFinalize
  \/ PollFinalizeQueryFails
  \/ PollLock
  \/ PollPublish
  \/ Elapse

SpecLoop == Init /\ [][NextLoop]_vars

\* Every storage call, upstream call and sleep returns.
FairSpecLoop == SpecLoop /\ WF_vars(NextLoop)

\* Race requests (resolve_race_forecasts) and the clock; the provider stays at
\* its first model run.
NextRace ==
  \/ \E s \in Slots : EfCheck(s)
  \/ \E s \in Slots : EfRequest(s)
  \/ \E s \in Slots : EfResponse(s)
  \/ \E s \in Slots : EfWrite(s)
  \/ BatchStart
  \/ BatchPrefetch
  \/ \E j \in 1..BatchLen : BatchInsert(j)
  \/ BatchRequery
  \/ Tick

SpecRace == Init /\ [][NextRace]_vars

\* All three writers of the history: single requests, race requests and the
\* poller.
NextHistory ==
  \/ Next
  \/ BatchStart
  \/ BatchPrefetch
  \/ \E j \in 1..BatchLen : BatchInsert(j)
  \/ BatchRequery

\* The tables an earlier race request for times beyond the coverage leaves:
\* no record, and either no row or the row of every checkpoint, fetched at
\* start-up from the first model run with Expires half an hour later.
HistoryCaches ==
  { {} } \cup
  { { [ cp |-> c, raw_response |-> [ loc |-> c, ver |-> 1 ], fetched_at |-> 0,
        expires_at |-> HourSecs \div 2, last_modified |-> lm ] : c \in Checkpoints } :
      lm \in { None, Some(1) } }

\* One operation is left to start.
InitHistory ==
  /\ now = 0
  /\ upRun = 1
  /\ cache \in HistoryCaches
  /\ forecasts = << >>
  /\ ef = [ s \in Slots |-> IdleCall ]
  /\ res = [ k \in 1..NumResolvers |-> IdleRequest ]
  /\ batch = IdleBatch
  /\ poller = IdlePoller
  /\ nops = MaxOps - 1
  /\ statusReq = IdleStatus
  /\ xin = None
  /\ xout = None

SpecHistory == InitHistory /\ [][NextHistory]_vars

\* The poller starting a cycle on tables that requests have written.
SpecCatchUp == InitHistory /\ [][NextPoller]_vars

\* The poller task and its exchanges keep running.
FairSpecCatchUp == SpecCatchUp /\ WF_vars(NextPoller)

\* The poller and the status endpoint.
NextStatus ==
  \/ NextPoller
  \/ StatusRead
  \/ StatusReturn

SpecStatus == Init /\ [][NextStatus]_vars

\* Two callers of resolve_forecast at once, with the clock and the provider.
CallerSlots == { "r" } \X (1..NumCallers)

InitCallers ==
  /\ now = 0
  /\ upRun = 1
  /\ cache = {}
  /\ forecasts = << >>
  /\ ef = [ s \in Slots \cup CallerSlots |-> IdleCall ]
  /\ res = [ k \in 1..NumCallers |-> IdleRequest ]
  /\ batch = IdleBatch
  /\ poller = IdlePoller
  /\ nops = 0
  /\ statusReq = IdleStatus
  /\ xin = None
  /\ xout = None

NextCallers ==
  \/ \E s \in CallerSlots : EfCheck(s)
  \/ \E s \in CallerSlots : EfRequest(s)
  \/ \E s \in CallerSlots : EfResponse(s)
  \/ \E s \in CallerSlots : EfWrite(s)
  \/ \E k \in 1..NumCallers : ResolveStart(k)
  \/ \E k \in 1..NumCallers : ResolveFallback(k)
  \/ \E k \in 1..NumCallers : ResolveExtract(k)
  \/ \E k \in 1..NumCallers : ResolveRequery(k)
  \/ Tick
  \/ Publish

SpecCallers == InitCallers /\ [][NextCallers]_vars

\* Two callers at once and a provider that keeps to the protocol.
NextRevalidate ==
  \/ \E s \in CallerSlots : EfCheck(s)
  \/ \E s \in CallerSlots : EfRequest(s)
  \/ \E s \in CallerSlots : EfConditionalResponse(s)
  \/ \E s \in CallerSlots : EfWrite(s)
  \/ \E k \in 1..NumCallers : ResolveStart(k)
  \/ \E k \in 1..NumCallers : ResolveFallback(k)
  \/ \E k \in 1..NumCallers : ResolveExtract(k)
  \/ \E k \in 1..NumCallers : ResolveRequery(k)
  \/ Tick
  \/ Publish

SpecRevalidate == InitCallers /\ [][NextRevalidate]_vars

\* Requests for times at the edges of what the extractor accepts, on a
\* history that an earlier payload has written to.  That payload, of the run
\* before the first one here, started an hour earlier: its record of each
\* checkpoint at -01:00 is in the history or not.  The times: 40 minutes
\* before the first entry, an hour after the last hourly entry, and three
\* hours and three hours and a second after the six-hourly entry.
WindowTimes == { 0 - (2 * HourSecs) \div 3, 2 * HourSecs, 9 * HourSecs, 9 * HourSecs + 1 }

EarlierRecord(cp) ==
  [ cp |-> cp, forecast_time |-> 0 - HourSecs, fetched_at |-> 0 - HourSecs,
    yr_model_run_at |-> Some(0), data |-> cp ]

EarlierHistories == { << >>, [ cp \in Checkpoints |-> EarlierRecord(cp) ] }

InitLookup ==
  /\ now = 0
  /\ upRun = 1
  /\ cache = {}
  /\ forecasts \in EarlierHistories
  /\ ef = [ s \in Slots |-> IdleCall ]
  /\ res = [ k \in 1..NumResolvers |-> IdleRequest ]
  /\ batch = IdleBatch
  /\ poller = IdlePoller
  /\ nops = 0
  /\ statusReq = IdleStatus
  /\ xin = None
  /\ xout = None

NextLookup ==
  \/ \E s \in Slots : EfCheck(s)
  \/ \E s \in Slots : EfRequest(s)
  \/ \E s \in Slots : EfResponse(s)
  \/ \E s \in Slots : EfWrite(s)
  \/ \E k \in 1..NumResolvers : ResolveStartAt(k, WindowTimes)
  \/ \E k \in 1..NumResolvers : ResolveFallback(k)
  \/ \E k \in 1..NumResolvers : ResolveExtract(k)
  \/ \E k \in 1..NumResolvers : ResolveRequery(k)
  \/ Tick
  \/ Publish

SpecLookup == InitLookup /\ [][NextLookup]_vars

\* ------------------------------------------------ the extractor on its own
\* Timestamp texts: one that does not parse, midnight in UTC, and 07:00 at
\* +01:00 (06:00 UTC).
ExtractStamps ==
  { [ valid |-> FALSE, local |-> 0, offset |-> 0 ],
    Stamp(0),
    [ valid |-> TRUE, local |-> 7 * HourSecs, offset |-> HourSecs ] }

ExtractEntries ==
  { [ time |-> st, next_1_hours |-> f, data |-> 1 ] : st \in ExtractStamps, f \in BOOLEAN }

\* Payloads of up to MaxLen entries in any order.
ExtractPayloads ==
  UNION { [ 1..n -> ExtractEntries ] : n \in 0..MaxLen }

\* Requested times: on, at and one second around the two tolerances of either
\* entry time, and the midpoint of the two.
ExtractTargets ==
  { 0, HourSecs, HourSecs + 1, 3 * HourSecs - 1, 3 * HourSecs, 3 * HourSecs + 1,
    5 * HourSecs - 1, 5 * HourSecs, 9 * HourSecs, 9 * HourSecs + 1 }

InitExtract ==
  /\ InitSystem
  /\ xin \in { [ timeseries |-> ts, target |-> t ] :
                 ts \in ExtractPayloads, t \in ExtractTargets }
  /\ xout = None

\* extract_forecasts_at_times(payload, [target])
Extract ==
  /\ xout = None
  /\ xout' = Some(extract_forecasts_at_times(
                    [ model_run |-> None, timeseries |-> xin.timeseries ],
                    << xin.target >>))
  /\ UNCHANGED << now, upRun, cache, forecasts, ef, res, batch, poller, nops, xin, statusReq >>

NextExtract == Extract

SpecExtract == InitExtract /\ [][NextExtract]_vars

\* Requests for several times at once: every list of up to MaxLen times.
ExtractTargetLists == UNION { [ 1..n -> ExtractTargets ] : n \in 0..MaxLen }

InitExtractMany ==
  /\ InitSystem
  /\ xin \in { [ timeseries |-> ts, targets |-> tl ] :
                 ts \in ExtractPayloads, tl \in ExtractTargetLists }
  /\ xout = None

\* extract_forecasts_at_times(payload, targets)
ExtractMany ==
  /\ xout = None
  /\ xout' = Some(extract_forecasts_at_times(
                    [ model_run |-> None, timeseries |-> xin.timeseries ],
                    xin.targets))
  /\ UNCHANGED << now, upRun, cache, forecasts, ef, res, batch, poller, nops, xin, statusReq >>

NextExtractMany == ExtractMany

SpecExtractMany == InitExtractMany /\ [][NextExtractMany]_vars

\* ----------------------------------- forecast.rs: calculate_pass_time_fractions
\* Distances are whole km and elevations whole m; a real number is the
\* quotient [num, den] with den > 0, and costs are kept times CostScale.
Frac(num, den) == [ num |-> num, den |-> den ]
FracEq(a, b) == a.num * b.den = b.num * a.den
FracLe(a, b) == a.num * b.den <= b.num * a.den

\* cost_factor * dist_delta, times CostScale: uphill (1 + K_UP * gradient),
\* downhill (1 - K_DOWN * |gradient|), neither below MIN_COST_FACTOR, with
\* gradient = ele_delta / (dist_delta * 1000); zero for dist_delta <= 0.
segment_cost(a, b) ==
  LET dist_delta == b.distance_km - a.distance_km
      ele_delta  == b.elevation_m - a.elevation_m
      floor_cost == (CostScale \div MIN_COST_FACTOR_INV) * dist_delta
      up         == CostScale * dist_delta + K_UP * ele_delta
      down       == CostScale * dist_delta - K_DOWN * Abs(ele_delta)
  IN  IF dist_delta <= 0 THEN 0
      ELSE IF ele_delta >= 0
           THEN (IF up >= floor_cost THEN up ELSE floor_cost)
           ELSE (IF down >= floor_cost THEN down ELSE floor_cost)

RECURSIVE SumSeq(_)
SumSeq(q) == IF q = << >> THEN 0 ELSE Head(q) + SumSeq(Tail(q))

\* calculate_pass_time_fractions(checkpoints)
calculate_pass_time_fractions(checkpoints) ==
  LET n == Len(checkpoints)
      segment_costs == [ i \in 1..(n - 1) |-> segment_cost(checkpoints[i], checkpoints[i + 1]) ]
      total_cost == SumSeq(segment_costs)
      total_dist == checkpoints[n].distance_km
  IN  IF n = 0 THEN << >>
      ELSE IF n = 1 THEN << Frac(0, 1) >>
      ELSE IF total_cost <= 0
      THEN (IF total_dist <= 0
            THEN [ i \in 1..n |-> Frac(i - 1, n - 1) ]
            ELSE [ i \in 1..n |-> Frac(checkpoints[i].distance_km, total_dist) ])
      ELSE [ i \in 1..n |->
               IF i = n THEN Frac(1, 1)
               ELSE Frac(SumSeq(SubSeq(segment_costs, 1, i - 1)), total_cost) ]

\* The profiles: up to MaxProfile checkpoints, distances in any order.
PacingCheckpoints ==
  { [ distance_km |-> d, elevation_m |-> h ] : d \in { 0, 5, 10 }, h \in { 0, 1000 } }

PacingProfiles == UNION { [ 1..n -> PacingCheckpoints ] : n \in 0..MaxProfile }

InitPacing ==
  /\ InitSystem
  /\ xin \in PacingProfiles
  /\ xout = None

Fractions ==
  /\ xout = None
  /\ xout' = Some(calculate_pass_time_fractions(xin))
  /\ UNCHANGED << now, upRun, cache, forecasts, ef, res, batch, poller, nops, xin, statusReq >>

NextPacing == Fractions

SpecPacing == InitPacing /\ [][NextPacing]_vars

\* -------------------------------------- poller.rs: compute_extraction_times
\* Race starts (seconds; 7 * HourSecs is 07:00Z) and distances (metres).
BandStarts == { 0, 1, HourSecs \div 2, HourSecs - 1, 7 * HourSecs, 7 * HourSecs + 1 }

BandDistances ==
  { d * KmScale + m : d \in { 0 - 1, 0, 10, 30, 45 }, m \in { 0, 1 } }

InitBand ==
  /\ InitSystem
  /\ xin \in [ race_start : BandStarts, distance_km : BandDistances ]
  /\ xout = None

Band ==
  /\ xout = None
  /\ xout' = Some(compute_extraction_times(xin.race_start, xin.distance_km))
  /\ UNCHANGED << now, upRun, cache, forecasts, ef, res, batch, poller, nops, xin, statusReq >>

NextBand == Band

SpecBand == InitBand /\ [][NextBand]_vars

\* ------------------------------------ queries.rs: get_latest_forecasts_batch
\* The stored records and the pairs of a call: records of two checkpoints at
\* 00:00 and 02:00, pairs asking for 01:00 and 10:00 at checkpoints with and
\* without records.
QueryRows ==
  { [ cp |-> c, forecast_time |-> ft, fetched_at |-> 0, yr_model_run_at |-> None,
      data |-> c ] : c \in Checkpoints, ft \in { 0, 2 * HourSecs } }

QueryPairs == (1..(NumCheckpoints + 1)) \X { HourSecs, 10 * HourSecs }

InitQuery ==
  /\ InitSystem
  /\ xin \in [ tbl   : UNION { [ 1..n -> QueryRows ] : n \in 0..MaxLen },
               pairs : UNION { [ 1..n -> QueryPairs ] : n \in 0..MaxLen } ]
  /\ xout = None

Query ==
  /\ xout = None
  /\ \E results \in get_latest_forecasts_batch(xin.tbl, xin.pairs) :
       xout' = Some(results)
  /\ UNCHANGED << now, upRun, cache, forecasts, ef, res, batch, poller, nops, xin, statusReq >>

NextQuery == Query

SpecQuery == InitQuery /\ [][NextQuery]_vars

\* ------------------------- forecast.rs: resolve_race_forecasts, step 1 alone
\* The stream of step 1 for a request of n checkpoints (xin), each
\* ensure_yr_cache_fresh taken as one step that ends in a payload or an error.
\* xout counts how often each future was polled for the first time.
InitFetch ==
  /\ InitSystem
  /\ xin \in 0..MaxFutures
  /\ xout = None

FetchStart ==
  /\ batch.pc = "idle"
  /\ batch' = [ IdleBatch EXCEPT
                  !.pc = "fetch",
                  !.items = [ i \in 1..xin |-> << ((i - 1) % NumCheckpoints) + 1, HourSecs \div 2 >> ],
                  !.fut = buffer_unordered_start(xin) ]
  /\ xout' = Some([ i \in 1..xin |->
                      IF buffer_unordered_start(xin)[i] = "running" THEN 1 ELSE 0 ])
  /\ UNCHANGED << now, upRun, cache, forecasts, ef, res, poller, nops, xin, statusReq >>

FetchComplete(i) ==
  /\ batch.pc = "fetch"
  /\ i \in DOMAIN batch.fut
  /\ batch.fut[i] = "running"
  /\ \E out \in { Ok([ loc |-> batch.items[i][1], ver |-> upRun ]), Err } :
       LET b2 == buffer_unordered_collect(batch, << "b", i >>,
                                          [ IdleCall EXCEPT !.pc = "done", !.out = Some(out) ])
       IN  /\ batch' = b2
           /\ xout' = Some([ j \in DOMAIN batch.fut |->
                               Unwrap(xout)[j] + IF j \in Spawned(batch, b2) THEN 1 ELSE 0 ])
  /\ UNCHANGED << now, upRun, cache, forecasts, ef, res, poller, nops, xin, statusReq >>

NextFetch ==
  \/ FetchStart
  \/ \E i \in 1..MaxFutures : FetchComplete(i)

SpecFetch == InitFetch /\ [][NextFetch]_vars

\* ------------------------------------------ forecast.rs: infer_precipitation_type
\* A symbol code is a sequence of fragments of text; str::to_lowercase maps
\* each fragment to its lower-case form, and str::contains(w) holds when a
\* fragment is w.  Temperatures and amounts are in tenths.
SymbolFragments == { "snow", "sleet", "rain", "drizzle", "cloudy", "SNOW", "Rain" }

to_lowercase(code) ==
  [ i \in 1..Len(code) |->
      IF code[i] = "SNOW" THEN "snow" ELSE IF code[i] = "Rain" THEN "rain" ELSE code[i] ]

contains(code, w) == \E i \in 1..Len(code) : code[i] = w

\* Variant of infer_precipitation_type that looks for "sleet" first.
infer_precipitation_type_sleet_first(symbol_code, temperature_c, precipitation_mm) ==
  LET code_lower == to_lowercase(symbol_code)
  IN  IF precipitation_mm <= 0 THEN "none"
      ELSE IF contains(code_lower, "sleet") THEN "sleet"
      ELSE IF contains(code_lower, "snow") THEN "snow"
      ELSE IF contains(code_lower, "rain") \/ contains(code_lower, "drizzle") THEN "rain"
      ELSE IF temperature_c < 0 THEN "snow"
      ELSE IF temperature_c <= 2 * TempScale THEN "sleet"
      ELSE "rain"

infer_precipitation_type(symbol_code, temperature_c, precipitation_mm) ==
  LET code_lower == to_lowercase(symbol_code)
  IN  IF precipitation_mm <= 0 THEN "none"
      ELSE IF contains(code_lower, "snow") THEN "snow"
      ELSE IF contains(code_lower, "sleet") THEN "sleet"
      ELSE IF contains(code_lower, "rain") \/ contains(code_lower, "drizzle") THEN "rain"
      ELSE IF temperature_c < 0 THEN "snow"
      ELSE IF temperature_c <= 2 * TempScale THEN "sleet"
      ELSE "rain"

\* Symbol codes of up to MaxLen fragments, temperatures around the two
\* thresholds, amounts around zero.
PrecipInputs ==
  [ symbol_code      : UNION { [ 1..n -> SymbolFragments ] : n \in 0..MaxLen },
    temperature_c    : { -50, -1, 0, 1, 19, 20, 21, 50 },
    precipitation_mm : { -5, 0, 1, 20 } ]

InitPrecip ==
  /\ InitSystem
  /\ xin \in PrecipInputs
  /\ xout = None

Infer ==
  /\ xout = None
  /\ xout' = Some(infer_precipitation_type(xin.symbol_code, xin.temperature_c,
                                           xin.precipitation_mm))
  /\ UNCHANGED << now, upRun, cache, forecasts, ef, res, batch, poller, nops, xin, statusReq >>

NextPrecip == Infer

SpecPrecip == InitPrecip /\ [][NextPrecip]_vars

\* The runtime polls the request and every future that can go on.
FairSpecFetch == SpecFetch /\ WF_vars(NextFetch)

\* ------------------------------------------------------------- properties
\* The expiry a response asks for: its Expires header when it is a date, one
\* hour from t otherwise.
WantedExpiry(r, t) ==
  IF IsSome(r.expires) /\ Unwrap(r.expires).valid THEN Unwrap(r.expires).at
  ELSE t + HourSecs

RowsOf(tbl, cp) == { r \in tbl : r.cp = cp }

\* Two history records with the same identity: checkpoint, forecast time and
\* model run (two unknown model runs count as the same).
SameKey(a, b) ==
  /\ a.cp = b.cp
  /\ a.forecast_time = b.forecast_time
  /\ a.yr_model_run_at = b.yr_model_run_at

\* What the future of input i returned to resolve_race_forecasts.
FutureOutcome(i) ==
  batch.fetch_results[CHOOSE j \in 1..Len(batch.owner) : batch.owner[j] = i]

\* C1: resolve_race_forecasts returns one result per input, and result i
\* belongs to input i whatever the order of completion: it is stale exactly
\* when checkpoint i's own ensure_yr_cache_fresh failed, and a record it
\* carries is of checkpoint i, holds the weather of checkpoint i's payload
\* and lies within the lookup window of checkpoint i's time.
C1_ResultsFollowInputs ==
  (batch.pc = "done" /\ ~batch.err) =>
    /\ Len(batch.results) = Len(batch.items)
    /\ \A i \in 1..Len(batch.items) :
         LET rf == Unwrap(batch.results[i])
             cp == batch.items[i][1]
             t  == batch.items[i][2]
         IN  /\ IsSome(batch.results[i])
             /\ rf.is_stale <=> ~FutureOutcome(i).ok
             /\ IsSome(rf.forecast) =>
                  /\ Unwrap(rf.forecast).cp = cp
                  /\ Unwrap(rf.forecast).data = cp
                  /\ Abs(Unwrap(rf.forecast).forecast_time - t) <= 3 * HourSecs

C3_FreshRowNoUpstream ==
  [][ \A s \in Slots :
        /\ (ef[s].pc = "check" /\ ef'[s] # ef[s]
              /\ \E r \in RowsOf(cache, ef[s].cp) : r.expires_at > now) =>
             /\ ef'[s].pc = "done"
             /\ \E r \in RowsOf(cache, ef[s].cp) :
                  r.expires_at > now /\ ef'[s].out = Some(Ok(r.raw_response))
             /\ ef'[s].nUp = 0
             /\ ef'[s].nWr = 0
             /\ cache' = cache
        /\ ef'[s].arm = "hit" => (ef'[s].nUp = 0 /\ ef'[s].nWr = 0) ]_vars

C3_Witness ==
  \E s \in Slots : ef[s].pc = "done" /\ ef[s].arm = "hit" /\ Unwrap(ef[s].out).ok

\* C4: when the call found an expired row and the provider answers 304, the
\* call returns the payload it found stored, the row's expires_at becomes the
\* expiry of the response (one hour from now without a usable header), and
\* payload and fetched_at of the row, and every other row, stay as they are.
C4_NotModifiedExtends ==
  [][ \A s \in Slots :
        (ef[s].pc = "write" /\ ef'[s].pc = "done" /\ ef[s].http = "status_304") =>
          LET cp == ef[s].cp
              r  == Unwrap(ef[s].resp)
          IN  /\ IsSome(ef[s].existing)
              /\ ef'[s].out = Some(Ok(Unwrap(ef[s].existing).raw_response))
              /\ \A old \in RowsOf(cache, cp) :
                   \E new \in RowsOf(cache', cp) :
                     /\ new.raw_response = old.raw_response
                     /\ new.fetched_at = old.fetched_at
              /\ \A new \in RowsOf(cache', cp) :
                   /\ new.expires_at = WantedExpiry(r, now)
                   /\ \E old \in RowsOf(cache, cp) :
                        new.raw_response = old.raw_response /\ new.fetched_at = old.fetched_at
              /\ \A c \in Checkpoints \ { cp } : RowsOf(cache', c) = RowsOf(cache, c) ]_vars

C4_Witness ==
  \E s \in Slots :
    /\ ef[s].pc = "done"
    /\ ef[s].http = "status_304"
    /\ ef[s].arm = "notmod"
    /\ ef[s].nWr = 1
    /\ \E r \in RowsOf(cache, ef[s].cp) : r.expires_at > r.fetched_at + HourSecs

\* C5: a call whose exchange fails (no response, or a status that is neither
\* a success nor 304) ends with an error and writes nothing: the cache
\* changes only in the write step of a call whose exchange did not fail.
C5_FailedExchangeNoWrite ==
  [][ /\ \A s \in Slots :
           ef'[s].http \in { "transport_error", "status_500" } =>
             /\ ef'[s].pc = "done"
             /\ ef'[s].out = Some(Err)
             /\ ef'[s].nWr = 0
      /\ cache' # cache =>
           \E s \in Slots :
             /\ ef[s].pc = "write"
             /\ ef[s].http \in { "status_200", "status_304" }
             /\ ef'[s].nWr = ef[s].nWr + 1 ]_vars

C5_Witness ==
  \E s \in Slots :
    /\ ef[s].pc = "done"
    /\ ef[s].http = "status_500"
    /\ ~Unwrap(ef[s].out).ok
    /\ RowsOf(cache, ef[s].cp) # {}

\* C6: the cache never holds two rows of one checkpoint, and a 200 response
\* leaves exactly one row of the checkpoint, carrying the payload and token of
\* the response, the time of the write and the expiry the response asks for.
C6_OneRowPerCheckpoint ==
  [][ /\ \A cp \in Checkpoints :
           Cardinality(RowsOf(cache, cp)) <= 1 /\ Cardinality(RowsOf(cache', cp)) <= 1
      /\ \A s \in Slots :
           (ef[s].pc = "write" /\ ef'[s].pc = "done" /\ ef[s].http = "status_200") =>
             LET r == Unwrap(ef[s].resp)
             IN  RowsOf(cache', ef[s].cp) =
                   { [ cp |-> ef[s].cp, raw_response |-> Unwrap(r.raw_json),
                       fetched_at |-> now, expires_at |-> WantedExpiry(r, now),
                       last_modified |-> r.last_modified ] } ]_vars

C6_Witness ==
  \E s \in Slots :
    /\ ef[s].pc = "done"
    /\ ef[s].arm = "new"
    /\ ef[s].had_row
    /\ Cardinality(RowsOf(cache, ef[s].cp)) = 1

\* C7: the history never holds two records with the same checkpoint,
\* forecast time and model run, nor two records of unknown model run with the
\* same checkpoint and forecast time.
C7_UniqueHistory ==
  \A i, j \in 1..Len(forecasts) :
    i # j => ~SameKey(forecasts[i], forecasts[j])

\* C8: inserting a record whose checkpoint, forecast time and model run are
\* those of a stored record stores nothing: every step that adds to the
\* history adds a record whose identity no stored record has, and a request
\* whose record was already stored is told "not inserted" and goes on.
C8_InsertIdempotent ==
  [][ /\ forecasts' # forecasts =>
           /\ Len(forecasts') = Len(forecasts) + 1
           /\ \A i \in 1..Len(forecasts) :
                /\ forecasts'[i] = forecasts[i]
                /\ ~SameKey(forecasts[i], forecasts'[Len(forecasts')])
      /\ \A k \in 1..NumResolvers :
           (res[k].pc = "ef" /\ res'[k].pc = "requery"
              /\ \E i \in 1..Len(forecasts) :
                   SameKey(forecasts[i],
                           build_single_insert_params(res[k].cp,
                                                      Unwrap(res'[k].extracted), now))) =>
             /\ res'[k].inserted = None
             /\ forecasts' = forecasts ]_vars

\* The entry nearest to t among those whose time parses, the first in payload
\* order among equally near ones, as an index into ts; its time in UTC and
\* its tolerance.
EntryTime(e) == e.time.local - e.time.offset
Parseable(ts) == { i \in 1..Len(ts) : ts[i].time.valid }
NearestIndex(ts, t) ==
  CHOOSE i \in Parseable(ts) :
    \A j \in Parseable(ts) :
      /\ Abs(EntryTime(ts[i]) - t) <= Abs(EntryTime(ts[j]) - t)
      /\ j < i => Abs(EntryTime(ts[j]) - t) > Abs(EntryTime(ts[i]) - t)
TierTolerance(e) == IF e.next_1_hours THEN 3600 ELSE 10800

\* C9: for a payload with an entry whose time parses, the extractor returns
\* an entry for the requested time exactly when the nearest entry is at most
\* its own tier's tolerance away (3600 s with next_1_hours, 10800 s without),
\* and then it returns that entry.
C9_WithinTierTolerance ==
  (IsSome(xout) /\ Parseable(xin.timeseries) # {}) =>
    LET e   == xin.timeseries[NearestIndex(xin.timeseries, xin.target)]
        d   == Abs(EntryTime(e) - xin.target)
        got == Unwrap(xout).forecasts[1]
    IN  /\ Unwrap(xout).ok
        /\ IsSome(got) <=> d <= TierTolerance(e)
        /\ (d = TierTolerance(e) + 1) => got = None
        /\ IsSome(got) =>
             /\ Unwrap(got).forecast_time = EntryTime(e)
             /\ Unwrap(got).fine = e.next_1_hours

C9_Witness ==
  /\ IsSome(xout)
  /\ Parseable(xin.timeseries) # {}
  /\ LET e == xin.timeseries[NearestIndex(xin.timeseries, xin.target)]
     IN  /\ ~e.next_1_hours
         /\ Abs(EntryTime(e) - xin.target) = 10800
         /\ IsSome(Unwrap(xout).forecasts[1])

\* C10: resolve_race_forecasts fails only when the ensure_yr_cache_fresh of
\* some checkpoint failed and no record near that checkpoint's time was
\* stored; and a checkpoint whose own payload has no entry for its time gets,
\* at its index, the result without a record that carries the horizon.
C10_BatchFailsOnlyWithoutData ==
  /\ (batch.pc = "done" /\ batch.err) =>
       \E i \in 1..Len(batch.items) : ~FutureOutcome(i).ok /\ batch.near[i] = {}
  /\ (batch.pc = "done" /\ ~batch.err) =>
       \A i \in 1..Len(batch.items) :
         LET fo == FutureOutcome(i)
             ex == extract_forecasts_at_times(Document(Unwrap(fo.val)),
                                              << batch.items[i][2] >>)
         IN  (fo.ok /\ ex.forecasts[1] = None) =>
               batch.results[i] =
                 Some(ResolvedForecast(None, FALSE, ex.forecast_horizon))

\* C11: when ensure_yr_cache_fresh succeeded and the payload has no entry
\* for the requested time, resolve_forecast ends in that step with a
\* successful outcome that carries no record, is not stale and has the
\* horizon, and the history is as it was.
C11_UnavailableIsSuccess ==
  [][ \A k \in 1..NumResolvers :
        LET s == << "r", k >>
        IN  (res[k].pc = "ef" /\ res'[k].pc # "ef" /\ ef[s].pc = "done"
               /\ Unwrap(ef[s].out).ok) =>
              LET ex == extract_forecasts_at_times(
                          Document(Unwrap(Unwrap(ef[s].out).val)), << res[k].t >>)
              IN  (ex.ok /\ ex.forecasts[1] = None) =>
                    /\ res'[k].pc = "done"
                    /\ res'[k].result =
                         Some([ err |-> FALSE, forecast |-> None, is_stale |-> FALSE,
                                horizon |-> ex.forecast_horizon ])
                    /\ IsSome(ex.forecast_horizon)
                    /\ forecasts' = forecasts ]_vars

C11_Witness ==
  \E k \in 1..NumResolvers :
    /\ res[k].pc = "done"
    /\ res[k].fresh_ok
    /\ ~Unwrap(res[k].result).err
    /\ Unwrap(res[k].result).forecast = None
    /\ IsSome(Unwrap(res[k].result).horizon)

\* C12: for a profile of two or more checkpoints the fractions are as many
\* as the checkpoints, the first is 0, the last is 1, and none is smaller
\* than the one before it.
C12_FractionsShape ==
  (IsSome(xout) /\ Len(xin) >= 2) =>
    LET f == Unwrap(xout)
        n == Len(xin)
    IN  /\ Len(f) = n
        /\ FracEq(f[1], Frac(0, 1))
        /\ FracEq(f[n], Frac(1, 1))
        /\ \A i \in 1..(n - 1) : FracLe(f[i], f[i + 1])

\* C13: for a profile of two or more checkpoints that all have the same
\* distance, fraction i is (i - 1) / (n - 1), counting from 1.
C13_EqualDistancesUniform ==
  (IsSome(xout) /\ Len(xin) >= 2
     /\ \A i \in 1..Len(xin) : xin[i].distance_km = xin[1].distance_km) =>
    /\ Len(Unwrap(xout)) = Len(xin)
    /\ \A i \in 1..Len(xin) : FracEq(Unwrap(xout)[i], Frac(i - 1, Len(xin) - 1))

\* The hour boundaries around an instant given as the quotient num / den of
\* seconds (den > 0, num >= 0): the last one not after it, the first not before.
FloorHourOf(num, den) == (num \div (den * HourSecs)) * HourSecs
CeilHourOf(num, den) == ((num + den * HourSecs - 1) \div (den * HourSecs)) * HourSecs

\* C14: for a distance <= 0 the slots are the single hour floor_to_hour(start);
\* for a distance > 0 they are exactly the hours from the floor of
\* start + distance / 30 km/h to the ceiling of start + distance / 10 km/h,
\* both included, at least one, strictly increasing, each on the hour.
C14_ExtractionBand ==
  IsSome(xout) =>
    LET times == Unwrap(xout)
        d     == xin.distance_km
        first == FloorHourOf(xin.race_start * POLLER_MAX_SPEED_KMH * KmScale + d * HourSecs,
                             POLLER_MAX_SPEED_KMH * KmScale)
        last  == CeilHourOf(xin.race_start * POLLER_MIN_SPEED_KMH * KmScale + d * HourSecs,
                            POLLER_MIN_SPEED_KMH * KmScale)
    IN  IF d <= 0
        THEN times = << (xin.race_start \div HourSecs) * HourSecs >>
        ELSE /\ Len(times) >= 1
             /\ times[1] = first
             /\ times[Len(times)] = last
             /\ \A i \in 1..Len(times) : times[i] % HourSecs = 0
             /\ \A i \in 1..(Len(times) - 1) : times[i + 1] = times[i] + HourSecs

\* The pass of a poll cycle that is running: a checkpoint is being polled.
InPass(pl) == pl.pc \in { "poll", "post", "insert" }

HasNotModified(statuses) == \E i \in 1..Len(statuses) : statuses[i] = "not_modified"

\* C15: a cycle has at most 5 retry passes; a retry pass starts only 120 s or
\* more after the pass before it ended; when a pass ends, a retry pass follows
\* exactly if some checkpoint is still "not_modified" and fewer than 5 retry
\* passes were made, and otherwise the cycle goes to finalization.
C15_RetryPasses ==
  [][ /\ poller.retry <= POLLER_MAX_RETRIES /\ poller'.retry <= POLLER_MAX_RETRIES
      /\ (InPass(poller) /\ ~InPass(poller')) =>
           /\ poller'.pc \in { "retry_sleep", "finalize" }
           /\ poller'.pc = "retry_sleep" <=>
                (HasNotModified(poller'.statuses) /\ poller.retry < 5)
           /\ poller'.pc = "retry_sleep" =>
                poller'.retry = poller.retry + 1 /\ poller'.wake_at = now + 120
      /\ (poller.pc = "retry_sleep" /\ poller'.pc # "retry_sleep") =>
           /\ now >= poller.wake_at
           /\ InPass(poller') /\ poller'.retry = poller.retry
           /\ poller.statuses[poller'.idx] = "not_modified" ]_vars

C15_Witness ==
  /\ poller.pc = "finalize"
  /\ poller.retry = 5
  /\ HasNotModified(poller.statuses)

\* The step in which the poller learns that the refresh of the checkpoint it
\* is polling failed.
RefreshFails ==
  /\ poller.pc = "poll"
  /\ ef[PollSlot].pc = "done"
  /\ ~Unwrap(ef[PollSlot].out).ok
  /\ poller' # poller

PolledExpiries == { r.expires_at : r \in { q \in cache : q.cp \in Checkpoints } }

C17_WitnessBetween ==
  /\ poller.pc = "sleep"
  /\ IsSome(poller.sleep_duration)
  /\ Unwrap(poller.sleep_duration) > 60
  /\ Unwrap(poller.sleep_duration) < 1800

C17_WitnessNoExpiry ==
  /\ poller.pc = "sleep"
  /\ poller.total_polls >= 1
  /\ PolledExpiries = {}

\* The stored records of checkpoint cp within 3 hours of time t.
Matches(tbl, cp, t) ==
  { i \in 1..Len(tbl) : tbl[i].cp = cp /\ Abs(tbl[i].forecast_time - t) <= 3 * HourSecs }

\* C18: the result of getLatestForecastsBatch has one element per pair;
\* element i is none exactly when no stored record matches pair i, and
\* otherwise a stored record that matches pair i and that no matching record
\* is nearer to the pair's time than.
C18_BatchAligned ==
  IsSome(xout) =>
    LET results == Unwrap(xout)
        pairs   == xin.pairs
    IN  /\ DOMAIN results = 1..Len(pairs)
        /\ \A i \in 1..Len(pairs) :
             LET m == Matches(xin.tbl, pairs[i][1], pairs[i][2])
             IN  IF m = {} THEN results[i] = None
                 ELSE \E j \in m :
                        /\ results[i] = Some(xin.tbl[j])
                        /\ \A h \in m : Abs(xin.tbl[j].forecast_time - pairs[i][2])
                                          <= Abs(xin.tbl[h].forecast_time - pairs[i][2])

C18_Witness ==
  /\ IsSome(xout)
  /\ Len(xin.pairs) = 2
  /\ Unwrap(xout)[1] = None
  /\ IsSome(Unwrap(xout)[2])
  /\ Unwrap(Unwrap(xout)[2]).cp = xin.pairs[2][1]

\* C19: when the extractor succeeds, the horizon is the latest of the times
\* of the entries whose time parses, in whatever order the payload lists them.
C19_HorizonIsLatest ==
  (IsSome(xout) /\ Unwrap(xout).ok) =>
    \E i \in Parseable(xin.timeseries) :
      /\ Unwrap(xout).forecast_horizon = Some(EntryTime(xin.timeseries[i]))
      /\ \A j \in Parseable(xin.timeseries) :
           EntryTime(xin.timeseries[j]) <= EntryTime(xin.timeseries[i])

\* C20: the extractor fails exactly when no entry of the payload has a time
\* that parses (an empty payload included); otherwise it returns one result
\* per requested time, in the order of the request: the result for a time is
\* the entry nearest to it among the entries that parse, or none when that
\* entry is beyond its tolerance, and the horizon is the time of an entry
\* that parses.
C20_ExtractFailsOrSkips ==
  IsSome(xout) =>
    LET ts  == xin.timeseries
        out == Unwrap(xout)
    IN  /\ out.ok <=> Parseable(ts) # {}
        /\ out.ok =>
             /\ Len(out.forecasts) = Len(xin.targets)
             /\ \E i \in Parseable(ts) : out.forecast_horizon = Some(EntryTime(ts[i]))
             /\ \A k \in 1..Len(xin.targets) :
                  LET e == ts[NearestIndex(ts, xin.targets[k])]
                      d == Abs(EntryTime(e) - xin.targets[k])
                  IN  /\ IsSome(out.forecasts[k]) <=> d <= TierTolerance(e)
                      /\ IsSome(out.forecasts[k]) =>
                           /\ Unwrap(out.forecasts[k]).forecast_time = EntryTime(e)
                           /\ Unwrap(out.forecasts[k]).fine = e.next_1_hours

C20_Witness ==
  /\ IsSome(xout)
  /\ Unwrap(xout).ok
  /\ Len(xin.timeseries) = 2
  /\ ~xin.timeseries[1].time.valid
  /\ EntryTime(xin.timeseries[2]) = 6 * HourSecs
  /\ Len(xin.targets) = 2
  /\ xin.targets[1] = 5 * HourSecs /\ IsSome(Unwrap(xout).forecasts[1])
  /\ xin.targets[2] = 0 /\ Unwrap(xout).forecasts[2] = None

C20_WitnessFails ==
  /\ IsSome(xout)
  /\ ~Unwrap(xout).ok
  /\ xin.timeseries # << >>

InFlight == { i \in DOMAIN batch.fut : batch.fut[i] = "running" }

\* C21: while a race request fetches, at most 4 of its ensure_yr_cache_fresh
\* calls are in flight, no call is started twice, and in the end every input
\* checkpoint's call has been started once and has completed.
C21_AtMostFourInFlight ==
  /\ [](Cardinality(InFlight) <= 4)
  /\ [](IsSome(xout) => \A i \in DOMAIN Unwrap(xout) : Unwrap(xout)[i] <= 1)
  /\ (batch.pc = "fetch")
       ~> (/\ Len(batch.fetch_results) = xin
           /\ \A i \in 1..xin : batch.fut[i] = "collected" /\ Unwrap(xout)[i] = 1
           /\ \A i \in 1..xin : \E k \in 1..xin : batch.owner[k] = i)

C21_Witness ==
  /\ batch.pc = "fetch"
  /\ Cardinality(InFlight) = 4
  /\ \E i \in DOMAIN batch.fut : batch.fut[i] = "queued"
  /\ \E i \in DOMAIN batch.fut : batch.fut[i] = "collected"

SameRequest(a, b) ==
  /\ a # b
  /\ b \in res[a].peers
  /\ res[a].cp = res[b].cp
  /\ res[a].t = res[b].t
  /\ IsSome(res[a].extracted)
  /\ res[a].extracted = res[b].extracted

RecordsOf(cp, parsed) ==
  { i \in 1..Len(forecasts) :
      /\ forecasts[i].cp = cp
      /\ forecasts[i].forecast_time = parsed.forecast_time
      /\ forecasts[i].yr_model_run_at = parsed.yr_model_run_at }

\* C22: when two concurrent calls of resolve_forecast for the same checkpoint
\* and time have extracted the same entry of the same payload, the history
\* holds exactly one record of that entry, one of the two inserts reports no
\* row inserted, and once both have returned, both return the same record.
C22_ConcurrentInsertOnce ==
  \A a, b \in DOMAIN res :
    (SameRequest(a, b) /\ res[a].pc \in { "requery", "done" }
                       /\ res[b].pc \in { "requery", "done" }) =>
      /\ Cardinality(RecordsOf(res[a].cp, Unwrap(res[a].extracted))) = 1
      /\ res[a].inserted = None \/ res[b].inserted = None
      /\ (res[a].pc = "done" /\ res[b].pc = "done") =>
            /\ ~Unwrap(res[a].result).err
            /\ Unwrap(res[a].result).forecast = Unwrap(res[b].result).forecast

\* The same, restricted to entries whose payload names its model run.
C22_KnownRunInsertOnce ==
  \A a, b \in DOMAIN res :
    (SameRequest(a, b) /\ IsSome(Unwrap(res[a].extracted).yr_model_run_at)
                       /\ res[a].pc \in { "requery", "done" }
                       /\ res[b].pc \in { "requery", "done" }) =>
      /\ Cardinality(RecordsOf(res[a].cp, Unwrap(res[a].extracted))) = 1
      /\ res[a].inserted = None \/ res[b].inserted = None
      /\ (res[a].pc = "done" /\ res[b].pc = "done") =>
            /\ ~Unwrap(res[a].result).err
            /\ Unwrap(res[a].result).forecast = Unwrap(res[b].result).forecast

\* An upstream request, a storage call or a sleep of the poller is in
\* progress: an ensure_yr_cache_fresh call, a step of the queries of a pass,
\* or, with no block pending, a sleep or the read of finalize_poll_cycle.
PollerAwaitsIo ==
  \/ ef[PollSlot].pc # "idle"
  \/ poller.pc \in { "pre", "poll", "post", "insert" }
  \/ poller.pub = "none" /\ poller.pc \in { "retry_sleep", "finalize" }
  \/ poller.pub = "none" /\ poller.pc = "sleep" /\ now < poller.wake_at

\* C23: while the write guard of the PollerState is out the poller awaits no
\* upstream request, storage call or sleep, and its next step replaces the
\* state fields and drops the guard, leaving the rest as it is; a read guard
\* is out only in a status request, whose next step copies the state and
\* drops it; so a status request waits for the guard for one step of the
\* poller at most.
C23_GuardNotHeldAcrossIo ==
  /\ [](poller.guard.writer => (poller.pub = "held" /\ ~PollerAwaitsIo))
  /\ [](poller.guard.readers = (IF statusReq.pc = "held" THEN 1 ELSE 0))
  /\ [](~(poller.guard.writer /\ poller.guard.readers > 0))
  /\ [][ poller.guard.writer =>
           \/ UNCHANGED << poller, ef, cache, forecasts >>
           \/ /\ ~poller'.guard.writer
              /\ UNCHANGED << ef, cache, forecasts, now >>
              /\ poller'.idx = poller.idx
              /\ poller'.statuses = poller.statuses
              /\ poller'.checkpoints =
                   IF poller.pc = "no_races" THEN << >> ELSE poller.statuses ]_vars
  /\ [][ statusReq.pc = "held" =>
           \/ UNCHANGED << statusReq, poller.guard, poller.checkpoints, poller.total_polls >>
           \/ /\ statusReq'.pc = "done"
              /\ statusReq'.copy = Some(PollerStateOf(poller))
              /\ poller'.guard.readers = 0
              /\ PollerStateOf(poller') = PollerStateOf(poller) ]_vars

C23_Witness ==
  /\ poller.guard.writer
  /\ poller.pc = "retry_sleep"
  /\ statusReq.pc = "done"
  /\ Unwrap(statusReq.copy).checkpoints # << >>
  /\ Unwrap(statusReq.copy).checkpoints # poller.statuses

C23_WitnessRead ==
  /\ statusReq.pc = "held"
  /\ poller.pub = "want"
  /\ ef[<< "p", 1 >>].pc = "idle"
  /\ poller.total_polls = 1

\* C28: an iteration that finds no upcoming race publishes an empty
\* checkpoint list with the wake-up time 3600 s ahead, sends no upstream
\* request and makes no ensure_yr_cache_fresh call, then sleeps 3600 s, and
\* only after that sleep the loop starts again.
C28_NoRacesIteration ==
  /\ [](poller.pc = "no_races" => (ef[PollSlot].pc = "idle" /\ poller.statuses = << >>))
  /\ [][ poller.pc = "no_races" =>
           /\ UNCHANGED << ef, cache, forecasts >>
           /\ poller'.pc \in { "no_races", "sleep" }
           /\ poller'.pc = "sleep" =>
                /\ poller'.checkpoints = << >>
                /\ poller'.next_wakeup_at = Some(now + 3600)
                /\ poller'.last_poll_completed_at = Some(now)
                /\ poller'.wake_at = now + 3600
                /\ poller'.total_polls = poller.total_polls
                /\ ~poller'.guard.writer ]_vars
  /\ [][ (poller.pc = "sleep" /\ poller'.pc # "sleep") =>
           /\ now >= poller.wake_at
           /\ poller'.pc \in { "pre", "no_races" } ]_vars

C28_Witness ==
  /\ poller.pc = "pre"
  /\ poller.total_polls = 0
  /\ poller.checkpoints = << >>
  /\ poller.next_wakeup_at = Some(3600)
  /\ now >= 3600

C28_WitnessAfterCycle ==
  /\ poller.pc = "sleep"
  /\ poller.total_polls = 1
  /\ poller.statuses = << >>
  /\ poller.checkpoints = << >>
  /\ IsSome(poller.last_poll_completed_at)
  /\ poller.wake_at = Unwrap(poller.last_poll_completed_at) + 3600

\* The columns of the row of checkpoint cp that only the upsert writes.
StoredPayload(tbl, cp) ==
  { [ raw_response |-> r.raw_response, fetched_at |-> r.fetched_at ] : r \in RowsOf(tbl, cp) }

\* C24: an ensure_yr_cache_fresh call writes to storage at most once: the
\* table changes only in the write step of one call, which is either the
\* upsert of the payload received (status 200) or the bump of expiry and
\* token that leaves payload and fetched_at alone (status 304); a call that
\* returned from the cache or failed has written nothing.
C24_AtMostOneWrite ==
  /\ [](\A s \in Slots :
          /\ ef[s].nWr <= 1
          /\ ef[s].pc = "done" =>
               /\ ef[s].nWr = (IF ef[s].arm \in { "new", "notmod" } THEN 1 ELSE 0)
               /\ ef[s].arm = "hit" => ef[s].nUp = 0
               /\ ~Unwrap(ef[s].out).ok => ef[s].nWr = 0)
  /\ [][ \A s \in Slots :
           /\ ef'[s].nWr > ef[s].nWr =>
                /\ ef[s].pc = "write" /\ ef'[s].pc = "done" /\ ef[s].nWr = 0
                /\ Unwrap(ef'[s].out).ok
                /\ \A cp \in Checkpoints \ { ef[s].cp } : RowsOf(cache', cp) = RowsOf(cache, cp)
                /\ IF Unwrap(ef[s].resp).kind = "NewData"
                   THEN /\ ef'[s].arm = "new"
                        /\ StoredPayload(cache', ef[s].cp) =
                             { [ raw_response |-> Unwrap(Unwrap(ef[s].resp).raw_json),
                                 fetched_at |-> now ] }
                   ELSE /\ ef'[s].arm = "notmod"
                        /\ StoredPayload(cache', ef[s].cp) = StoredPayload(cache, ef[s].cp)
           /\ (cache' # cache) => \E x \in Slots : ef'[x].nWr > ef[x].nWr ]_vars

C24_Witness ==
  /\ now > 0
  /\ ef[PollSlot].pc = "done" /\ ef[PollSlot].arm = "notmod" /\ ef[PollSlot].nWr = 1
  /\ \E r \in cache : r.cp = ef[PollSlot].cp /\ r.fetched_at < now /\ r.expires_at > now

\* C25: when the answer to the request of an ensure_yr_cache_fresh call is
\* 304 and the call found no row of the checkpoint, the call ends there with
\* an error and no payload, and it has written nothing; in particular this is
\* so whenever the table holds no row of the checkpoint.
C25_NotModifiedWithoutRow ==
  /\ [][ \A s \in Slots :
           (ef[s].pc = "http" /\ ef'[s].pc # "http" /\ ef'[s].http = "status_304"
              /\ (~IsSome(ef[s].existing) \/ RowsOf(cache, ef[s].cp) = {})) =>
             /\ ef'[s].pc = "done"
             /\ ~Unwrap(ef'[s].out).ok
             /\ Unwrap(ef'[s].out).val = None
             /\ ef'[s].nWr = 0
             /\ cache' = cache ]_vars
  /\ [](\A s \in Slots : (ef[s].pc = "done" /\ ef[s].arm = "norow") =>
                            (~Unwrap(ef[s].out).ok /\ ef[s].nWr = 0))

C25_Witness ==
  \E s \in Slots :
    /\ ef[s].pc = "done" /\ ef[s].arm = "norow" /\ ef[s].http = "status_304"
    /\ RowsOf(cache, ef[s].cp) = {}
    /\ ef[s].nUp = 1

\* Record r is entry i of payload raw taken for the time target: it has the
\* entry's own time and values, the entry is within its tolerance of target,
\* and r has the model run of the payload.
FromEntry(r, raw, i, target) ==
  LET en == Document(raw).timeseries[i]
  IN  /\ parse_from_rfc3339(en.time) = Some(r.forecast_time)
      /\ r.data = en.data
      /\ Abs(r.forecast_time - target) <= max_tolerance_secs(en.next_1_hours)
      /\ r.yr_model_run_at = Document(raw).model_run

FromPayload(r, raw, target) ==
  \E i \in 1..Len(Document(raw).timeseries) : FromEntry(r, raw, i, target)

\* C26: a record appended to the history by resolve_forecast, by
\* resolve_race_forecasts or by the poller has the time of an entry of the
\* payload the writer extracted from, that entry being the one taken for the
\* requested time, and the model run of that payload; requested times that
\* are no entry time are never stored.
C26_NativeTimestamp ==
  [][ Len(forecasts') > Len(forecasts) =>
        LET r == forecasts'[Len(forecasts')]
        IN  /\ Len(forecasts') = Len(forecasts) + 1
            /\ r.forecast_time \notin RequestTimes
            /\ \/ \E k \in 1..NumResolvers :
                    /\ res[k].pc = "ef" /\ res'[k].pc = "requery"
                    /\ r.cp = res[k].cp
                    /\ FromPayload(r, Unwrap(Unwrap(ef[<< "r", k >>].out).val), res[k].t)
               \/ /\ poller.pc = "insert" /\ poller' # poller
                  /\ r.cp = poller.idx
                  /\ \E j \in 1..Len(compute_extraction_times(RaceStart, DistanceKm(poller.idx))) :
                       FromPayload(r, Unwrap(poller.raw_json),
                                   compute_extraction_times(RaceStart, DistanceKm(poller.idx))[j])
               \/ /\ batch.pc = "insert" /\ batch' # batch
                  /\ \E idx \in 1..Len(batch.fetch_results) :
                       /\ batch.fetch_results[idx].ok
                       /\ r.cp = batch.items[idx][1]
                       /\ FromPayload(r, Unwrap(batch.fetch_results[idx].val),
                                      batch.items[idx][2]) ]_vars

C26_Witness ==
  /\ \E i \in 1..Len(forecasts) :
       forecasts[i].forecast_time = 0 /\ forecasts[i].yr_model_run_at = None
  /\ \E i \in 1..Len(forecasts) :
       forecasts[i].forecast_time = 0 /\ forecasts[i].yr_model_run_at = Some(1)
  /\ batch.pc = "requery"

C26_WitnessPoller ==
  /\ poller.pc = "sleep"
  /\ \E i \in 1..Len(forecasts) :
       forecasts[i].forecast_time = HourSecs /\ forecasts[i].yr_model_run_at = None

\* The symbol code has fragment w, whatever the case of its letters.
HasWord(code, w) ==
  \E i \in 1..Len(code) : code[i] = w \/ (w = "snow" /\ code[i] = "SNOW")
                                      \/ (w = "rain" /\ code[i] = "Rain")

\* C29: infer_precipitation_type is "none" for an amount of zero or less
\* whatever the symbol code; otherwise "snow" if the code contains "snow",
\* else "sleet" if it contains "sleet", else "rain" if it contains "rain" or
\* "drizzle", else "snow" below 0 degrees, "sleet" up to 2 degrees and
\* "rain" above.  The letters of the code match in either case.
C29_PrecipitationType ==
  IsSome(xout) =>
    Unwrap(xout) =
      (IF xin.precipitation_mm <= 0 THEN "none"
       ELSE IF HasWord(xin.symbol_code, "snow") THEN "snow"
       ELSE IF HasWord(xin.symbol_code, "sleet") THEN "sleet"
       ELSE IF HasWord(xin.symbol_code, "rain") \/ HasWord(xin.symbol_code, "drizzle") THEN "rain"
       ELSE IF xin.temperature_c < 0 THEN "snow"
       ELSE IF xin.temperature_c <= 20 THEN "sleet"
       ELSE "rain")

C29_Witness ==
  /\ xout = Some("snow")
  /\ xin.symbol_code = << "sleet", "snow" >>
  /\ xin.temperature_c = 50
  /\ xin.precipitation_mm = 1

C29_WitnessNone ==
  /\ xout = Some("none")
  /\ xin.symbol_code = << "snow" >>
  /\ xin.precipitation_mm = 0

C29_WitnessBorder ==
  /\ xout = Some("sleet")
  /\ xin.symbol_code = << "cloudy" >>
  /\ xin.temperature_c = 20

\* The step starts a poll_single_checkpoint in a retry pass.
RetryPollStarts ==
  /\ poller'.pc = "poll"
  /\ poller'.retry >= 1
  /\ poller.pc # "poll" \/ poller'.idx # poller.idx

\* C30: in a retry pass a checkpoint is polled only while its status is
\* "not_modified"; within a cycle a status that is "new_data" or "error"
\* stays as it is, and what the poller publishes after a pass is the list of
\* these statuses, so the published status of such a checkpoint is the same
\* after every later pass.
C30_RetryOnlyNotModified ==
  /\ [][ RetryPollStarts =>
           /\ poller.statuses[poller'.idx] = "not_modified"
           /\ ef'[PollSlot].pc = "check" /\ ef'[PollSlot].cp = poller'.idx ]_vars
  /\ [][ (ef'[PollSlot].pc = "check" /\ ef[PollSlot].pc # "check" /\ poller'.retry >= 1) =>
           poller.statuses[ef'[PollSlot].cp] = "not_modified" ]_vars
  /\ [][ (poller'.pc \notin { "pre", "no_races" } /\ nops' = nops) =>
           \A j \in 1..Len(poller.statuses) :
             poller.statuses[j] \in { "new_data", "error" } =>
               /\ Len(poller'.statuses) >= j
               /\ poller'.statuses[j] = poller.statuses[j] ]_vars
  /\ [][ poller'.checkpoints # poller.checkpoints =>
           poller'.checkpoints = (IF poller.pc = "no_races" THEN << >> ELSE poller.statuses) ]_vars

C30_Witness ==
  /\ poller.pc = "poll"
  /\ poller.retry = 2
  /\ poller.idx = 2
  /\ poller.statuses = << "new_data", "not_modified" >>
  /\ poller.checkpoints = << "new_data", "not_modified" >>
  /\ poller.pub = "none"

C30_WitnessError ==
  /\ poller.pc = "sleep"
  /\ poller.retry = 0
  /\ poller.total_polls = 1
  /\ poller.checkpoints = << "error", "new_data" >>
  /\ IsSome(poller.sleep_duration)

\* The row of checkpoint cp holds payload raw.
HasPayload(cp, raw) == \E r \in cache : r.cp = cp /\ r.raw_response = raw

\* The history holds, for checkpoint cp, every entry that the extraction of
\* the band of cp finds in payload raw.
BandInHistory(cp, raw) ==
  LET found == SelectSeq(poll_extraction(raw, cp).forecasts, IsSome)
  IN  \A i \in 1..Len(found) :
        \E j \in 1..Len(forecasts) :
          /\ forecasts[j].cp = cp
          /\ forecasts[j].forecast_time = Unwrap(found[i]).forecast_time
          /\ forecasts[j].yr_model_run_at = Unwrap(found[i]).yr_model_run_at

\* The cycle is over and checkpoint cp ended it with an error.
CycleFailedFor(cp) ==
  /\ poller.pc = "sleep" /\ poller.pub = "none"
  /\ Len(poller.statuses) >= cp /\ poller.statuses[cp] = "error"

C27_OwnPayloadsReachHistory ==
  \A cp \in Checkpoints :
    (poller.pc \in { "retry_sleep", "finalize", "sleep" } /\ Len(poller.statuses) >= cp
       /\ poller.statuses[cp] = "new_data") =>
      \E raw \in [ loc : Checkpoints, ver : 1..MaxRun ] : BandInHistory(cp, raw)
\* poll_single_checkpoint returns for the checkpoint being polled: the step
\* from `post` that does not go on to the inserts, or the last insert.
Classifies(status) ==
  /\ poller.pc \in { "post", "insert" }
  /\ poller'.pc \notin { "post", "insert" }
  /\ IF poller.retry = 0
     THEN poller'.statuses = Append(poller.statuses, status)
     ELSE IF status = "not_modified"
          THEN poller'.statuses = poller.statuses /\ poller.pc = "post"
          ELSE poller'.statuses = [ poller.statuses EXCEPT ![poller.idx] = status ]

\* C31: a checkpoint is classified not_modified in a pass only when its
\* ensure_yr_cache_fresh call of that pass sent a request upstream and was
\* answered 304 (the NotModified arm); a call that sent no request never
\* leads to not_modified.
C31_NotModifiedMeansAsked ==
  [][ Classifies("not_modified") => poller.refresh_arm = "notmod" ]_vars

\* What does hold: not_modified is given only after a call that stored no
\* payload, either a cache hit or a 304.
C31_NotModifiedMeansNoPayload ==
  [][ Classifies("not_modified") => poller.refresh_arm \in { "hit", "notmod" } ]_vars

\* C32: in a retry pass the refresh of every checkpoint still not_modified
\* sends a new conditional request upstream: no ensure_yr_cache_fresh call of
\* a retry pass ends without one, so a model run published during the retry
\* window is fetched by one of the passes.
C32_RetryAsksUpstream ==
  (poller.retry > 0 /\ poller.pc = "poll" /\ ef[PollSlot].pc = "done")
    => ef[PollSlot].nUp >= 1

\* The entries of ts whose time parses and that no other such entry is nearer
\* to t than, as indices, and the first of them in payload order.
EquallyNear(ts, t) ==
  { i \in Parseable(ts) :
      \A j \in Parseable(ts) : Abs(EntryTime(ts[i]) - t) <= Abs(EntryTime(ts[j]) - t) }

FirstOf(S) == CHOOSE i \in S : \A j \in S : i <= j

\* C33: for a requested time the extractor selects an entry at the smallest
\* absolute distance, the first in payload order among several equally near
\* ones, and applies the tolerance of the selected entry's tier: the result
\* is that entry when it is within its own tolerance and none otherwise,
\* whatever the tier of the other equally near entries.
C33_NearestFirstInPayload ==
  (IsSome(xout) /\ Unwrap(xout).ok) =>
    LET ts    == xin.timeseries
        sel   == ts[FirstOf(EquallyNear(ts, xin.target))]
        got   == Unwrap(xout).forecasts[1]
        within == Abs(EntryTime(sel) - xin.target) <= max_tolerance_secs(sel.next_1_hours)
    IN  /\ within => /\ IsSome(got)
                     /\ Unwrap(got).forecast_time = EntryTime(sel)
                     /\ Unwrap(got).fine = sel.next_1_hours
        /\ ~within => got = None

\* Two entries three hours either side of the requested time, the six-hourly
\* one first: it is selected and accepted.
C33_Witness ==
  /\ IsSome(xout)
  /\ xin.target = 3 * HourSecs
  /\ Len(xin.timeseries) = 2
  /\ EquallyNear(xin.timeseries, xin.target) = { 1, 2 }
  /\ EntryTime(xin.timeseries[1]) = 6 * HourSecs /\ ~xin.timeseries[1].next_1_hours
  /\ EntryTime(xin.timeseries[2]) = 0 /\ xin.timeseries[2].next_1_hours
  /\ IsSome(Unwrap(xout).forecasts[1])
  /\ Unwrap(Unwrap(xout).forecasts[1]).forecast_time = 6 * HourSecs

\* The same two entries with the hourly one first: it is selected and is
\* beyond its tolerance, so there is no result.
C33_WitnessHourlyFirst ==
  /\ IsSome(xout)
  /\ xin.target = 3 * HourSecs
  /\ Len(xin.timeseries) = 2
  /\ EquallyNear(xin.timeseries, xin.target) = { 1, 2 }
  /\ xin.timeseries[1].next_1_hours /\ ~xin.timeseries[2].next_1_hours
  /\ Unwrap(xout).ok
  /\ Unwrap(xout).forecasts[1] = None

\* The run of the payload a checkpoint's row holds, 0 without a row.
StoredRun(tbl, cp) ==
  IF RowsOf(tbl, cp) = {} THEN 0
  ELSE (CHOOSE r \in RowsOf(tbl, cp) : TRUE).raw_response.ver

\* The token of every row is the Last-Modified of the run of its payload.
TokenOfStoredPayload(tbl) ==
  \A r \in tbl : IsSome(r.last_modified) => Unwrap(r.last_modified) = r.raw_response.ver

\* C34: whatever the interleaving of concurrent ensure_yr_cache_fresh calls
\* for a checkpoint, after every step the token of the checkpoint's row is
\* the one upstream sent with the payload the row holds, and no step replaces
\* the stored payload by the payload of an older run.
C34_TokenAndPayloadKept ==
  [][ /\ TokenOfStoredPayload(cache')
      /\ \A cp \in Checkpoints : StoredRun(cache', cp) >= StoredRun(cache, cp) ]_vars

\* The first half on its own.
C34_TokenKept == TokenOfStoredPayload(cache)

\* C35: when ensure_yr_cache_fresh succeeded, the extractor returned an entry
\* and the insert did not fail, the re-read of resolve_forecast finds a
\* record: the request never ends with "no record, not stale" after an
\* extraction, also when the entry is the full three hours from the
\* requested time.
C35_RereadFindsRecord ==
  \A k \in DOMAIN res :
    (res[k].pc = "done" /\ IsSome(res[k].extracted)) =>
      LET r == Unwrap(res[k].result)
      IN  /\ ~r.err
          /\ ~r.is_stale
          /\ IsSome(r.forecast)
          /\ Abs(Unwrap(r.forecast).forecast_time - res[k].t)
               <= FORECAST_TIME_TOLERANCE_HOURS * HourSecs

\* The six-hourly entry of 06:00 accepted for 09:00 and read back.
C35_Witness ==
  \E k \in DOMAIN res :
    /\ res[k].pc = "done"
    /\ res[k].t = 9 * HourSecs
    /\ IsSome(res[k].extracted)
    /\ Unwrap(res[k].extracted).forecast_time = 6 * HourSecs
    /\ IsSome(Unwrap(res[k].result).forecast)
    /\ Unwrap(Unwrap(res[k].result).forecast).forecast_time = 6 * HourSecs

\* Model run a is not older than model run b (an unknown b is older than
\* none).
RunNotOlder(a, b) ==
  ~IsSome(b) \/ (IsSome(a) /\ Unwrap(a) >= Unwrap(b))

\* C36: a record that resolve_forecast returns as not stale has the timestamp
\* of the entry the extractor selected from the payload of that call, and a
\* model run not older than that payload's, whatever records earlier payloads
\* left in the history.
C36_ReturnsOwnExtraction ==
  \A k \in DOMAIN res :
    (/\ res[k].pc = "done"
     /\ ~Unwrap(res[k].result).err
     /\ ~Unwrap(res[k].result).is_stale
     /\ IsSome(Unwrap(res[k].result).forecast)) =>
      LET f == Unwrap(Unwrap(res[k].result).forecast)
          x == Unwrap(res[k].extracted)
      IN  /\ f.forecast_time = x.forecast_time
          /\ RunNotOlder(f.yr_model_run_at, x.yr_model_run_at)

\* C37: a resolve_race_forecasts call that fails because a checkpoint has
\* neither a fresh payload nor a stored record inserts nothing into the
\* history: no record is inserted while the call fetches, in the step in
\* which it fails, or after it, also when the extraction of another
\* checkpoint of the same call had succeeded.
C37_FailedBatchInsertsNothing ==
  [][ (batch.pc = "fetch" \/ batch.err \/ batch'.err) => forecasts' = forecasts ]_vars

\* A failed call that had collected the insert of a checkpoint whose
\* extraction succeeded, and no record of that checkpoint is stored.
C37_Witness ==
  /\ batch.pc = "done"
  /\ batch.err
  /\ Len(batch.insert_params) >= 1
  /\ \A i \in 1..Len(forecasts) : forecasts[i].cp # batch.insert_params[1].cp

\* The block of finalize_poll_cycle completes: the final state of a cycle
\* that polled checkpoints is published.
CycleFinalized ==
  /\ poller.pub = "held"
  /\ poller.pc = "sleep"
  /\ poller'.pub = "none"

\* C38: total_polls never decreases; it grows by exactly one in the step in
\* which a cycle that polled checkpoints is finalized, and no other step
\* changes it: an iteration that finds no race, or whose race query fails,
\* leaves it as it is.
C38_TotalPollsCountsCycles ==
  [][ /\ poller'.total_polls >= poller.total_polls
      /\ CycleFinalized => poller'.total_polls = poller.total_polls + 1
      /\ ~CycleFinalized => poller'.total_polls = poller.total_polls ]_vars

\* Two cycles finalized.
C38_Witness ==
  /\ poller.total_polls = 2
  /\ poller.pc = "sleep"
  /\ poller.pub = "none"

\* A finalized cycle followed by an iteration that found no race.
C38_WitnessNoRaces ==
  /\ poller.total_polls = 1
  /\ nops = 2
  /\ poller.pc = "sleep"
  /\ poller.pub = "none"
  /\ poller.checkpoints = << >>
  /\ poller.next_wakeup_at = Some(now + POLLER_NO_RACES_SLEEP_SECS)

\* A finalized cycle followed by an iteration whose race query failed.
C38_WitnessQueryFailed ==
  /\ poller.total_polls = 1
  /\ nops = 2
  /\ poller.pc = "sleep"
  /\ poller.pub = "none"
  /\ poller.checkpoints # << >>
  /\ poller.wake_at = now + POLLER_MIN_SLEEP_SECS
  /\ poller.next_wakeup_at # Some(poller.wake_at)

\* A payload as the provider lays it out: every time parses, the entries are
\* in increasing time order, the hourly entries come first and are one hour
\* apart, the six-hourly entries follow and are six hours apart, and the
\* first six-hourly entry is at most six hours after the last hourly one.
LaidOut(ts) ==
  /\ ts # << >>
  /\ \A i \in 1..Len(ts) : ts[i].time.valid
  /\ \A i \in 1..(Len(ts) - 1) :
       LET gap == EntryTime(ts[i + 1]) - EntryTime(ts[i])
       IN  /\ gap > 0
           /\ ts[i].next_1_hours \/ ~ts[i + 1].next_1_hours
           /\ (ts[i].next_1_hours /\ ts[i + 1].next_1_hours) => gap = HourSecs
           /\ (~ts[i].next_1_hours /\ ~ts[i + 1].next_1_hours) => gap = 6 * HourSecs
           /\ (ts[i].next_1_hours /\ ~ts[i + 1].next_1_hours) => gap <= 6 * HourSecs

\* C39: for such a payload every requested time from the first entry's time
\* to the horizon gets an entry, never "unavailable".
C39_CoveredUpToHorizon ==
  (/\ IsSome(xout)
   /\ LaidOut(xin.timeseries)
   /\ xin.target >= EntryTime(xin.timeseries[1])
   /\ xin.target <= EntryTime(xin.timeseries[Len(xin.timeseries)])) =>
    /\ Unwrap(xout).ok
    /\ Unwrap(xout).forecast_horizon = Some(EntryTime(xin.timeseries[Len(xin.timeseries)]))
    /\ IsSome(Unwrap(xout).forecasts[1])

\* The poller is in a sleep_secs at the bottom of an iteration.
Sleeping == poller.pc = "sleep" /\ poller.pub = "none"

\* C40: given that every storage call, upstream call and sleep returns, every
\* iteration of run_poller reaches its sleep, whatever failed in it, and after
\* the sleep the next iteration begins (as long as an iteration is left to
\* start); an iteration begins only when the one before it has reached its
\* sleep, so two cycles never run at once.
C40_LoopGoesOn ==
  /\ (~Sleeping) ~> Sleeping
  /\ \A n \in 0..(MaxOps - 1) : (nops = n) ~> (nops = n + 1)
  /\ [][ nops' # nops => (Sleeping /\ ef[PollSlot].pc = "idle") ]_vars

\* A second iteration has begun after a cycle in which a refresh failed.
C40_Witness ==
  /\ nops = 2
  /\ poller.pc = "pre"
  /\ poller.total_polls = 1
  /\ \E i \in 1..Len(poller.checkpoints) : poller.checkpoints[i] = "error"

\* A cycle follows an iteration whose race query failed.
C40_WitnessAfterQueryFailure ==
  /\ nops = 2
  /\ poller.pc = "pre"
  /\ poller.total_polls = 0
  /\ poller.last_poll_completed_at = None

====
